---- MODULE Spec2Model ----
(***************************************************************************)
(* A model of the Eclipse Ditto Python client: the handler registry of     *)
(* ditto.client.Client guarded by ditto.rw_lock._RWLock, the inbound       *)
(* message fan-out of Client._on_paho_message, the lifecycle notification, *)
(* the publish path, the request-id extraction of ditto.utils and the      *)
(* Topic formatter/parser of ditto.protocol.topic.                         *)
(*                                                                         *)
(* Python strings are sequences of one-character strings; None is the      *)
(* sentinel sequence NoneV, which no Python string of the model contains.  *)
(***************************************************************************)
EXTENDS Integers, Sequences, FiniteSets, TLC

VARIABLES
    handlers,   \* Client._handlers: the list of handler functions
    mutex,      \* owner of the lock under _RWLock._read_condition, or Free
    readers,    \* _RWLock._readers
    pc,         \* position of every caller thread and transport thread
    call,       \* the subscribe/unsubscribe call each caller thread is in
    disp,       \* the inbound message each transport thread is handling
    units,      \* the handler threads still running, in start order
    nmsgs,      \* inbound messages delivered so far
    ncalls,     \* subscribe/unsubscribe calls made so far
    on_connect,     \* Client._on_connect: a callback or None
    on_disconnect,  \* Client._on_disconnect: a callback or None
    notif,      \* the lifecycle notification in progress
    nlog,       \* the log entries of the lifecycle notifier, oldest first
    nnotifs,    \* lifecycle notifications made so far
    pub,        \* the send/reply call in progress
    plog,       \* the log entries of the publish path, oldest first
    published,  \* what the transport has accepted, oldest first
    nsends,     \* send/reply calls made so far
    topic,      \* a Topic object: its six fields
    formatted,  \* str(topic), once taken
    parsed,     \* Topic().from_string(formatted), once called
    reformatted,    \* str() of the parsed Topic, once taken
    the_id,     \* a NamespacedID and the from_string call made on it
    the_envelope,   \* an Envelope, the calls made on it and their results
    the_command,    \* a Command builder, the calls made on it, its envelope
    the_event,      \* an Event builder, the calls made on it, its envelope
    the_message,    \* a Message builder, the calls made on it, its envelope
    the_thing,      \* a Thing, the calls made on it and its encoding
    failed          \* the handler threads that ended by raising, oldest first

clientVars == <<handlers, mutex, readers, pc, call, disp, units, nmsgs, ncalls>>
notifyVars == <<on_connect, on_disconnect, notif, nlog, nnotifs>>

publishVars == <<pub, plog, published, nsends>>

topicVars == <<topic, formatted, parsed, reformatted>>

modelVars ==
    <<the_id, the_envelope, the_command, the_event, the_message, the_thing, failed>>

vars == <<clientVars, notifyVars, publishVars, topicVars, modelVars>>

-----------------------------------------------------------------------------
(* Bounds of the model. *)

MaxMsgs == 2        \* inbound messages delivered in one behaviour
MaxCalls == 2       \* subscribe/unsubscribe calls made in one behaviour
MaxHandlers == 2    \* length the handler list is allowed to grow to
MaxFailed == 2      \* handler threads that end by raising in one behaviour
MaxRegistered == 3  \* handlers registered before the first call of a behaviour
MaxReuse == 2       \* builder calls made on one Command that is used again
MaxNotifs == 2      \* lifecycle notifications made in one behaviour
MaxLate == 1        \* time units between the end of join and the clock read
MaxSends == 2       \* send/reply calls made in one behaviour
MaxTail == 3        \* characters after the prefix of an inbound topic
MaxName == 1        \* characters of a namespace given to a Topic
MaxSegs == 7        \* segments of a string handed to Topic.from_string
MaxIdLen == 4       \* characters of a string handed to NamespacedID.from_string

-----------------------------------------------------------------------------
(* Values. *)

NoneV == <<"None!">>
Free == "free"

Handlers == {"h1", "h2"}
Writers == {"w1", "w2"}
Dispatchers == {"d1", "d2"}

Range(s) == {s[i] : i \in 1..Len(s)}

RECURSIVE Count(_, _)
Count(x, s) ==
    IF s = <<>> THEN 0
    ELSE (IF Head(s) = x THEN 1 ELSE 0) + Count(x, Tail(s))

SeqsUpTo(S, n) == UNION {[1..k -> S] : k \in 0..n}

(* A remove that drops every element equal to x.                           *)
ListRemoveAll(list, x) == SelectSeq(list, LAMBDA y : y # x)

(* list.remove(x): drops the first element equal to x. The caller checks   *)
(* that x is in the list; Python raises ValueError when it is not.         *)
RECURSIVE ListRemove(_, _)
ListRemove(list, x) ==
    IF list = <<>> THEN <<>>
    ELSE IF Head(list) = x THEN Tail(list)
    ELSE <<Head(list)>> \o ListRemove(Tail(list), x)

-----------------------------------------------------------------------------
(* ditto.utils: request id of an inbound topic, and payload decoding.      *)

ReqPrefix == <<"c","o","m","m","a","n","d","/","/","/","r","e","q","/">>

IsPrefix(p, s) == Len(p) <= Len(s) /\ SubSeq(s, 1, Len(p)) = p

\* Position of the first slash of s at or after position i; Len(s)+1 if none.
RECURSIVE FirstSlash(_, _)
FirstSlash(s, i) ==
    IF i > Len(s) THEN Len(s) + 1
    ELSE IF s[i] = "/" THEN i
    ELSE FirstSlash(s, i + 1)

\* A findall of a pattern whose second group may be empty.
RegexFindallEmptySubject(hono_topic) ==
    IF ~IsPrefix(ReqPrefix, hono_topic) THEN <<>>
    ELSE LET start == Len(ReqPrefix) + 1
             sep == FirstSlash(hono_topic, start)
         IN  IF sep > Len(hono_topic) THEN <<>>
             ELSE IF FirstSlash(hono_topic, sep + 1) <= Len(hono_topic) THEN <<>>
             ELSE << <<SubSeq(hono_topic, start, sep - 1),
                       SubSeq(hono_topic, sep + 1, Len(hono_topic))>> >>

\* findall of the request pattern: the literal prefix command///req/, a
\* first group of any number of non-slash characters, a slash, a second
\* group of one or more non-slash characters, end of string. The result is
\* the list of (id, subject) pairs; the pattern is anchored, so there is at
\* most one. The first group takes every character up to the next slash,
\* that slash is the separator and the second group must take all the rest.
RegexFindall(hono_topic) ==
    IF ~IsPrefix(ReqPrefix, hono_topic) THEN <<>>
    ELSE LET start == Len(ReqPrefix) + 1
             sep == FirstSlash(hono_topic, start)
         IN  IF sep > Len(hono_topic) THEN <<>>
             ELSE IF sep = Len(hono_topic) THEN <<>>
             ELSE IF FirstSlash(hono_topic, sep + 1) <= Len(hono_topic) THEN <<>>
             ELSE << <<SubSeq(hono_topic, start, sep - 1),
                       SubSeq(hono_topic, sep + 1, Len(hono_topic))>> >>

_extract_hono_req_id(hono_topic) ==
    LET matched_groups == RegexFindall(hono_topic)
    IN  IF matched_groups # <<>> /\ Len(matched_groups[1]) = 2
        THEN matched_groups[1][1]
        ELSE <<>>

(* Inbound messages of the client model: a topic and a payload.            *)
RequestTopic == ReqPrefix \o <<"4","2","/","s">>
OneWayTopic == ReqPrefix \o <<"/","s">>

SampleMessages == {
    [topic |-> RequestTopic, payload |-> "envelope_json"],
    [topic |-> OneWayTopic, payload |-> "envelope_json"],
    [topic |-> RequestTopic, payload |-> "not_json"] }

(* _get_envelope: json.loads raises on text that is not JSON.              *)
JsonLoads(payload) == payload # "not_json"
_get_envelope(payload) == [decoded_from |-> payload]

-----------------------------------------------------------------------------
(* ditto.protocol.topic.Topic *)

GROUP_THINGS == <<"t","h","i","n","g","s">>
GROUP_POLICIES == <<"p","o","l","i","c","i","e","s">>
CHANNEL_TWIN == <<"t","w","i","n">>
CHANNEL_LIVE == <<"l","i","v","e">>
CRITERION_COMMANDS == <<"c","o","m","m","a","n","d","s">>
CRITERION_EVENTS == <<"e","v","e","n","t","s">>
CRITERION_MESSAGES == <<"m","e","s","s","a","g","e","s">>
ACTION_MODIFY == <<"m","o","d","i","f","y">>

(* Topic(): every field None.                                              *)
NewTopic == [namespace |-> NoneV, entity_id |-> NoneV, group |-> NoneV,
             channel |-> NoneV, criterion |-> NoneV, action |-> NoneV]

NotParsed == [raised |-> FALSE, self |-> NewTopic, called |-> FALSE]

InitTopic ==
    /\ topic = NewTopic
    /\ formatted = NoneV
    /\ parsed = NotParsed
    /\ reformatted = NoneV

(* The text that format() puts in place of a string or None.               *)
Str(v) == IF v = NoneV THEN <<"N","o","n","e">> ELSE v

(* The truth value of a string or None.                                    *)
Truthy(v) == v # NoneV /\ v # <<>>

(* A __str__ that appends the channel whatever the group is.               *)
Topic__str__with_channel(self) ==
    LET prefix == Str(self.namespace) \o <<"/">> \o Str(self.entity_id)
                    \o <<"/">> \o Str(self.group)
        suffixes == <<self.channel, self.criterion, self.action>>
        add(text, suffix) ==
            IF Truthy(suffix) THEN text \o <<"/">> \o Str(suffix) ELSE text
    IN  add(add(add(prefix, suffixes[1]), suffixes[2]), suffixes[3])

(* Topic.__str__: the prefix namespace/entity_id/group and then every      *)
(* suffix that is truthy.                                                  *)
Topic__str__(self) ==
    LET prefix == Str(self.namespace) \o <<"/">> \o Str(self.entity_id)
                    \o <<"/">> \o Str(self.group)
        suffixes == IF self.group = GROUP_POLICIES
                    THEN <<self.criterion, self.action>>
                    ELSE <<self.channel, self.criterion, self.action>>
        add(text, suffix) ==
            IF Truthy(suffix) THEN text \o <<"/">> \o Str(suffix) ELSE text
    IN  IF Len(suffixes) = 2
        THEN add(add(prefix, suffixes[1]), suffixes[2])
        ELSE add(add(add(prefix, suffixes[1]), suffixes[2]), suffixes[3])

(* str.split(sep="/", maxsplit=n) *)
RECURSIVE SplitMax(_, _)
SplitMax(s, n) ==
    LET at == FirstSlash(s, 1)
    IN  IF n = 0 \/ at > Len(s) THEN <<s>>
        ELSE <<SubSeq(s, 1, at - 1)>>
                \o SplitMax(SubSeq(s, at + 1, Len(s)), n - 1)

(* A from_string that reads a channel whatever the group is.               *)
FromElementsChannelAlways(self, elements) ==
    LET n == Len(elements)
    IN  IF n < 5
        THEN [raised |-> TRUE, called |-> TRUE,
              self |-> [self EXCEPT !.namespace = elements[1]]]
        ELSE LET t5 == [self EXCEPT !.namespace = elements[1],
                                    !.entity_id = elements[2],
                                    !.group = elements[3],
                                    !.channel = elements[4],
                                    !.criterion = elements[5]]
             IN  IF n >= 6
                 THEN [raised |-> FALSE, called |-> TRUE,
                       self |-> [t5 EXCEPT !.action = elements[6]]]
                 ELSE [raised |-> FALSE, self |-> t5, called |-> TRUE]

(* Topic.from_string on the Topic self, read from a list of elements: the  *)
(* assignments made, and whether an index out of range ended them.         *)
FromElements(self, elements) ==
    LET n == Len(elements)
        t1 == [self EXCEPT !.namespace = elements[1]]
    IN  IF n < 2 THEN [raised |-> TRUE, self |-> t1, called |-> TRUE]
        ELSE LET t2 == [t1 EXCEPT !.entity_id = elements[2]]
        IN  IF n < 3 THEN [raised |-> TRUE, self |-> t2, called |-> TRUE]
        ELSE LET t3 == [t2 EXCEPT !.group = elements[3]]
                 things == t3.group = GROUP_THINGS
        IN  IF things /\ n < 4 THEN [raised |-> TRUE, self |-> t3, called |-> TRUE]
        ELSE LET t4 == IF things THEN [t3 EXCEPT !.channel = elements[4]] ELSE t3
                 index == IF things THEN 5 ELSE 4
        IN  IF n < index THEN [raised |-> TRUE, self |-> t4, called |-> TRUE]
        ELSE LET t5 == [t4 EXCEPT !.criterion = elements[index]]
        IN  IF index + 1 <= n
            THEN [raised |-> FALSE, called |-> TRUE,
                  self |-> [t5 EXCEPT !.action = elements[index + 1]]]
            ELSE [raised |-> FALSE, self |-> t5, called |-> TRUE]

(* A from_string that splits at every slash.                               *)
Topic_from_string_split_all(self, topic_string) ==
    FromElements(self, SplitMax(topic_string, Len(topic_string)))

(* Topic.from_string *)
Topic_from_string(self, topic_string) ==
    FromElements(self, SplitMax(topic_string, 5))

-----------------------------------------------------------------------------
(* NamespacedID.                                                           *)

(* NamespacedID(): namespace None, name None.                              *)
NewNamespacedID == [namespace |-> NoneV, name |-> NoneV]

NoId == [self |-> NewNamespacedID, input |-> NoneV, called |-> FALSE,
         raised |-> FALSE, returned |-> NoneV]

(* str.split(sep, maxsplit=1): the text before the first sep and the text  *)
(* after it, or the whole text when it holds no sep.                       *)
SplitOnce(s, sep) ==
    LET at == {i \in 1..Len(s) : s[i] = sep /\ \A j \in 1..(i - 1) : s[j] # sep}
    IN  IF at = {} THEN <<s>>
        ELSE LET i == CHOOSE i \in at : TRUE
             IN  <<SubSeq(s, 1, i - 1), SubSeq(s, i + 1, Len(s))>>

(* A from_string without the test of its argument.                         *)
NamespacedID_from_string_unguarded(self, namespaced_id_str) ==
    LET elements == SplitOnce(namespaced_id_str, ":")
    IN  IF namespaced_id_str = NoneV \/ Len(elements) < 2
        THEN [self |-> self, raised |-> TRUE, returned |-> NoneV]
        ELSE LET new == [namespace |-> elements[1], name |-> elements[2]]
             IN  [self |-> new, raised |-> FALSE, returned |-> new]

(* NamespacedID.from_string: nothing is done for None and for the empty    *)
(* string; elements[1] of a string without a colon is out of range, before *)
(* __init__ is called.                                                     *)
NamespacedID_from_string(self, namespaced_id_str) ==
    IF namespaced_id_str = NoneV \/ namespaced_id_str = <<>>
    THEN [self |-> self, raised |-> FALSE, returned |-> self]
    ELSE LET elements == SplitOnce(namespaced_id_str, ":")
         IN  IF Len(elements) < 2
             THEN [self |-> self, raised |-> TRUE, returned |-> NoneV]
             ELSE LET new == [namespace |-> elements[1], name |-> elements[2]]
                  IN  [self |-> new, raised |-> FALSE, returned |-> new]

-----------------------------------------------------------------------------
(* Headers and Envelope.                                                   *)
(*                                                                         *)
(* A JSON value is a tuple that starts with its type; None is NoneV. A     *)
(* dict is the set of its <<key, value>> pairs.                            *)

JInt(digits) == <<"int">> \o digits
JFalse == <<"bool", "f">>
JStr(chars) == <<"str">> \o chars
JEmptyDict == <<"dict">>

Keys(dict) == {item[1] : item \in dict}
Get(dict, key) == (CHOOSE item \in dict : item[1] = key)[2]

(* Headers(): no values; Headers.values after the with_* calls made.       *)
NoHeaders == [is_none |-> TRUE, values |-> {}]
NewHeaders == [is_none |-> FALSE, values |-> {}]
HeadersOf(values) == [is_none |-> FALSE, values |-> values]

Headers_to_ditto_dict(self) == {item \in self.values : item[2] # NoneV}

(* A from_ditto_dict that leaves the values empty.                         *)
Headers_from_ditto_dict_empty(ditto_dictionary) == NewHeaders

(* Headers.from_ditto_dict on a dict: a copy of it.                        *)
Headers_from_ditto_dict(ditto_dictionary) == HeadersOf(ditto_dictionary)

(* A reference to a Topic, or None.                                        *)
NoTopic == [is_none |-> TRUE, obj |-> NewTopic]
TopicRef(t) == [is_none |-> FALSE, obj |-> t]

(* self.topic.__str__(): the str of None is the text None.                 *)
TopicStr(ref) == IF ref.is_none THEN Str(NoneV) ELSE Topic__str__(ref.obj)

ditto_json_key_topic == "topic"
ditto_json_key_headers == "headers"
ScalarKeys == {"path", "value", "fields", "extra", "status", "revision", "timestamp"}
ditto_json_keys_all == {ditto_json_key_topic, ditto_json_key_headers} \cup ScalarKeys

(* Envelope.__init__: headers that are not given become Headers().         *)
Envelope__init__(topic_ref, headers, path, value, fields, extra, status, revision, timestamp) ==
    [topic |-> topic_ref,
     headers |-> IF headers.is_none THEN NewHeaders ELSE headers,
     path |-> path, value |-> value, fields |-> fields, extra |-> extra,
     status |-> status, revision |-> revision, timestamp |-> timestamp]

NewEnvelope ==
    Envelope__init__(NoTopic, NoHeaders, NoneV, NoneV, NoneV, NoneV, NoneV,
                     NoneV, NoneV)

(* A to_ditto_dict that keeps only the values that are truthy.             *)
Envelope_to_ditto_dict_truthy(self) ==
    LET envelope_dict ==
            {<<ditto_json_key_topic, JStr(TopicStr(self.topic))>>}
            \cup {<<k, self[k]>> : k \in ScalarKeys}
        falsy == {NoneV, JInt(<<"0">>), JFalse, JStr(<<>>), JEmptyDict}
    IN  {item \in envelope_dict : item[2] \notin falsy}
        \cup (IF self.headers.is_none \/ Headers_to_ditto_dict(self.headers) = {}
              THEN {}
              ELSE {<<ditto_json_key_headers, Headers_to_ditto_dict(self.headers)>>})

(* Envelope.to_ditto_dict: the topic string, the headers dict when headers *)
(* is not None, the seven other fields, and then only the items whose      *)
(* value is not None. The headers item holds a dict, which is not None.    *)
Envelope_to_ditto_dict(self) ==
    LET envelope_dict ==
            {<<ditto_json_key_topic, JStr(TopicStr(self.topic))>>}
            \cup {<<k, self[k]>> : k \in ScalarKeys}
    IN  {item \in envelope_dict : item[2] # NoneV}
        \cup (IF self.headers.is_none THEN {}
              ELSE {<<ditto_json_key_headers, Headers_to_ditto_dict(self.headers)>>})

(* A from_ditto_dict that takes any dict with an envelope key.             *)
Envelope_from_ditto_dict_any_key(self, ditto_dictionary) ==
    LET keys == Keys(ditto_dictionary)
        copy(key) == IF key \in keys THEN Get(ditto_dictionary, key)
                                     ELSE self[key]
    IN  IF keys \cap ditto_json_keys_all # {}
        THEN LET new == [topic |-> self.topic,
                         headers |-> NewHeaders,
                         path |-> copy("path"), value |-> copy("value"),
                         fields |-> copy("fields"), extra |-> copy("extra"),
                         status |-> copy("status"),
                         revision |-> copy("revision"),
                         timestamp |-> copy("timestamp")]
             IN  [self |-> new, raised |-> FALSE, returned |-> "self"]
        ELSE [self |-> self, raised |-> FALSE, returned |-> "input"]

(* Envelope.from_ditto_dict: a dict with the topic key sets the topic (the *)
(* parse may raise, before anything is assigned), the headers (Headers()   *)
(* when the dict has none) and every other field the dict has a key for,   *)
(* and self is returned; any other dict is returned as it is.              *)
Envelope_from_ditto_dict(self, ditto_dictionary) ==
    LET keys == Keys(ditto_dictionary)
        copy(key) == IF key \in keys THEN Get(ditto_dictionary, key)
                                     ELSE self[key]
    IN  IF keys \cap ditto_json_keys_all # {} /\ ditto_json_key_topic \in keys
        THEN LET topic_string == Get(ditto_dictionary, ditto_json_key_topic)
                 p == IF topic_string = NoneV THEN [NotParsed EXCEPT !.raised = TRUE]
                      ELSE Topic_from_string(NewTopic, Tail(topic_string))
                 new == [topic |-> TopicRef(p.self),
                         headers |->
                             IF ditto_json_key_headers \in keys
                             THEN Headers_from_ditto_dict(
                                      Get(ditto_dictionary, ditto_json_key_headers))
                             ELSE NewHeaders,
                         path |-> copy("path"), value |-> copy("value"),
                         fields |-> copy("fields"), extra |-> copy("extra"),
                         status |-> copy("status"),
                         revision |-> copy("revision"),
                         timestamp |-> copy("timestamp")]
             IN  IF p.raised
                 THEN [self |-> self, raised |-> TRUE, returned |-> "none"]
                 ELSE [self |-> new, raised |-> FALSE, returned |-> "self"]
        ELSE [self |-> self, raised |-> FALSE, returned |-> "input"]

NotEncoded == [taken |-> FALSE, dict |-> {}]

NoEnvelope ==
    [self |-> NewEnvelope, ditto_dict |-> NotEncoded,
     called |-> FALSE, ditto_dictionary |-> {}, before |-> NewEnvelope,
     raised |-> FALSE, returned |-> "none"]

-----------------------------------------------------------------------------
(* _Signal, Command and Event: a builder is its topic, path and payload.   *)

_path_thing == <<"/">>
_path_thing_definition == <<"/", "d", "e", "f", "i", "n", "i", "t", "i", "o", "n">>
_path_thing_policy_id == <<"/", "p", "o", "l", "i", "c", "y", "I", "d">>
_path_thing_features == <<"/", "f", "e", "a", "t", "u", "r", "e", "s">>
_path_thing_attributes == <<"/", "a", "t", "t", "r", "i", "b", "u", "t", "e", "s">>
_path_thing_attribute_format(a) == _path_thing_attributes \o <<"/">> \o Str(a)
_path_thing_feature_format(f) == _path_thing_features \o <<"/">> \o Str(f)
_path_thing_feature_definition_format(f) ==
    _path_thing_feature_format(f) \o <<"/", "d", "e", "f", "i", "n", "i", "t", "i", "o", "n">>
_path_thing_feature_properties_format(f) ==
    _path_thing_feature_format(f) \o <<"/", "p", "r", "o", "p", "e", "r", "t", "i", "e", "s">>
_path_thing_feature_property_format(f, p) ==
    _path_thing_feature_properties_format(f) \o <<"/">> \o Str(p)
_path_thing_feature_desired_properties_format(f) ==
    _path_thing_feature_format(f) \o <<"/", "d", "e", "s", "i", "r", "e", "d", "P", "r", "o", "p", "e", "r", "t", "i", "e", "s">>
_path_thing_feature_desired_property_format(f, p) ==
    _path_thing_feature_desired_properties_format(f) \o <<"/">> \o Str(p)

ACTION_CREATE == <<"c", "r", "e", "a", "t", "e">>
ACTION_CREATED == <<"c", "r", "e", "a", "t", "e", "d">>
ACTION_MODIFIED == <<"m", "o", "d", "i", "f", "i", "e", "d">>
ACTION_DELETE == <<"d", "e", "l", "e", "t", "e">>
ACTION_DELETED == <<"d", "e", "l", "e", "t", "e", "d">>
ACTION_RETRIEVE == <<"r", "e", "t", "r", "i", "e", "v", "e">>

(* An object with a to_ditto_dict method, and the dict the method gives.   *)
Convertible(name) == <<"obj", name>>
HasConverter(payload) == payload # NoneV /\ payload[1] = "obj"
to_ditto_dict(payload) == <<"dict">> \o Tail(payload)

(* NamespacedID.__str__ *)
NamespacedID__str__(self) == Str(self.namespace) \o <<":">> \o Str(self.name)

SampleThingId == [namespace |-> <<"n">>, name |-> <<"e">>]

(* Command.__init__(thing_id): the twin commands topic of the thing, the   *)
(* path of the whole thing, no payload.                                    *)
Command__init__(thing_id) ==
    [topic |-> [NewTopic EXCEPT !.namespace = thing_id.namespace,
                                !.entity_id = thing_id.name,
                                !.group = GROUP_THINGS,
                                !.channel = CHANNEL_TWIN,
                                !.criterion = CRITERION_COMMANDS],
     path |-> _path_thing,
     payload |-> NoneV]

(* Event.__init__(thing_id) *)
Event__init__(thing_id) ==
    [topic |-> [NewTopic EXCEPT !.namespace = thing_id.namespace,
                                !.entity_id = thing_id.name,
                                !.group = GROUP_THINGS,
                                !.channel = CHANNEL_TWIN,
                                !.criterion = CRITERION_EVENTS],
     path |-> _path_thing,
     payload |-> NoneV]

(* The value a method returns: the builder, or None when the method ends   *)
(* without a return statement.                                             *)
ReturnsSelf(self) == [self |-> self, returned |-> "self"]
ReturnsNone(self) == [self |-> self, returned |-> "None"]

Command_create(self, thing) ==
    ReturnsSelf([self EXCEPT !.topic.action = ACTION_CREATE,
                             !.payload = to_ditto_dict(thing),
                             !.path = _path_thing])

(* A modify that also sets the path of the whole thing.                    *)
Command_modify_resetting_path(self, payload) ==
    ReturnsSelf([self EXCEPT !.topic.action = ACTION_MODIFY,
                             !.payload = payload,
                             !.path = _path_thing])

Command_modify(self, payload) ==
    ReturnsSelf([self EXCEPT !.topic.action = ACTION_MODIFY,
                             !.payload = payload])

RECURSIVE ThingIds(_)
ThingIds(args) ==
    IF args = <<>> THEN <<>>
    ELSE <<"'">> \o NamespacedID__str__(Head(args)) \o <<"'">> \o ThingIds(Tail(args))

(* Command.retrieve: the payload is set only when thing ids are given.     *)
Command_retrieve(self, args) ==
    ReturnsSelf([self EXCEPT !.topic.action = ACTION_RETRIEVE,
                             !.payload = IF args # <<>>
                                         THEN <<"dict", "thingIds">> \o ThingIds(args)
                                         ELSE @])

Command_delete(self) == ReturnsSelf([self EXCEPT !.topic.action = ACTION_DELETE])

Event_created(self, thing) ==
    ReturnsSelf([self EXCEPT !.topic.action = ACTION_CREATED,
                             !.payload = to_ditto_dict(thing),
                             !.path = _path_thing])

Event_modified(self, payload) ==
    ReturnsSelf([self EXCEPT !.topic.action = ACTION_MODIFIED,
                             !.payload = payload])

Event_deleted(self) == ReturnsSelf([self EXCEPT !.topic.action = ACTION_DELETED])

(* The path-targeting methods of Command, this.name being the method and   *)
(* this.args its arguments: each sets self.path to the pointer of its      *)
(* template and returns self.                                              *)
Command_path(self, this) ==
    LET n == this.name
        a == this.args
    IN  ReturnsSelf([self EXCEPT !.path =
            IF n = "policy_id" THEN _path_thing_policy_id
            ELSE IF n = "definition" THEN _path_thing_definition
            ELSE IF n = "attributes" THEN _path_thing_attributes
            ELSE IF n = "attribute" THEN _path_thing_attribute_format(a[1])
            ELSE IF n = "features" THEN _path_thing_features
            ELSE IF n = "feature" THEN _path_thing_feature_format(a[1])
            ELSE IF n = "feature_definition" THEN _path_thing_feature_definition_format(a[1])
            ELSE IF n = "feature_properties" THEN _path_thing_feature_properties_format(a[1])
            ELSE IF n = "feature_property" THEN _path_thing_feature_property_format(a[1], a[2])
            ELSE IF n = "feature_desired_properties" THEN _path_thing_feature_desired_properties_format(a[1])
            ELSE IF n = "feature_desired_property" THEN _path_thing_feature_desired_property_format(a[1], a[2])
            ELSE @])

(* The path-targeting methods of Event: as those of Command, but          *)
(* feature_properties and feature_desired_properties only return self.     *)
Event_path(self, this) ==
    LET n == this.name
        a == this.args
    IN  ReturnsSelf([self EXCEPT !.path =
            IF n = "policy_id" THEN _path_thing_policy_id
            ELSE IF n = "definition" THEN _path_thing_definition
            ELSE IF n = "attributes" THEN _path_thing_attributes
            ELSE IF n = "attribute" THEN _path_thing_attribute_format(a[1])
            ELSE IF n = "features" THEN _path_thing_features
            ELSE IF n = "feature" THEN _path_thing_feature_format(a[1])
            ELSE IF n = "feature_definition" THEN _path_thing_feature_definition_format(a[1])
            ELSE IF n = "feature_properties" THEN @
            ELSE IF n = "feature_property" THEN _path_thing_feature_property_format(a[1], a[2])
            ELSE IF n = "feature_desired_properties" THEN @
            ELSE IF n = "feature_desired_property" THEN _path_thing_feature_desired_property_format(a[1], a[2])
            ELSE @])

(* live() ends with return self; twin() ends without a return statement.   *)
Command_live(self) == ReturnsSelf([self EXCEPT !.topic.channel = CHANNEL_LIVE])
Command_twin(self) == ReturnsNone([self EXCEPT !.topic.channel = CHANNEL_TWIN])
Event_live(self) == ReturnsSelf([self EXCEPT !.topic.channel = CHANNEL_LIVE])
Event_twin(self) == ReturnsNone([self EXCEPT !.topic.channel = CHANNEL_TWIN])

(* _Signal.envelope() without header arguments: the builder's topic, path  *)
(* and payload, the payload through its to_ditto_dict when it has one, and *)
(* Headers() of no values.                                                 *)
Signal_envelope(self) ==
    LET payload == IF ~HasConverter(self.payload) THEN self.payload
                   ELSE to_ditto_dict(self.payload)
    IN  [NewEnvelope EXCEPT !.topic = TopicRef(self.topic),
                            !.path = JStr(self.path),
                            !.value = payload,
                            !.headers = NewHeaders]

NoSignalCall == [name |-> "none", args |-> <<>>]
NotBuilt == [taken |-> FALSE, self |-> NewEnvelope]

(* A builder with the last action, path and channel calls made on it, what *)
(* the last call returned, and the envelope taken from it.                 *)
Builder(self) ==
    [self |-> self, returned |-> "self", last_call |-> "__init__",
     action_call |-> NoSignalCall,
     path_call |-> NoSignalCall, channel_call |-> NoSignalCall,
     created_since_path |-> FALSE, env |-> NotBuilt]

NoCommand == Builder(Command__init__(SampleThingId))
NoEvent == Builder(Event__init__(SampleThingId))

(* Message: a builder of live messages is its topic, subject, mailbox,     *)
(* addressed part of the thing and payload.                                *)
Message__inbox == <<"i", "n", "b", "o", "x">>
Message__outbox == <<"o", "u", "t", "b", "o", "x">>

(* The format string {}/{}/messages/{} applied to three values.            *)
Message__path_messages_format(address, mailbox, subject) ==
    Str(address) \o <<"/">> \o Str(mailbox) \o <<"/", "m", "e", "s", "s", "a", "g", "e", "s", "/">> \o Str(subject)

(* Message.__init__(thing_id): the live messages topic of the thing, no    *)
(* subject, no mailbox, the whole thing addressed, no payload.             *)
Message__init__(thing_id) ==
    [topic |-> [NewTopic EXCEPT !.namespace = thing_id.namespace,
                                !.entity_id = thing_id.name,
                                !.group = GROUP_THINGS,
                                !.channel = CHANNEL_LIVE,
                                !.criterion = CRITERION_MESSAGES],
     subject |-> NoneV,
     mailbox |-> NoneV,
     address_part_of_thing |-> <<>>,
     payload |-> NoneV]

Message_inbox(self, subject) ==
    [self EXCEPT !.topic.action = subject,
                 !.subject = subject,
                 !.mailbox = Message__inbox]

(* An outbox that files the subject under the inbox.                       *)
Message_outbox_as_inbox(self, subject) ==
    [self EXCEPT !.topic.action = subject,
                 !.subject = subject,
                 !.mailbox = Message__inbox]

Message_outbox(self, subject) ==
    [self EXCEPT !.topic.action = subject,
                 !.subject = subject,
                 !.mailbox = Message__outbox]

Message_with_payload(self, payload) == [self EXCEPT !.payload = payload]

Message_feature(self, feature_id) ==
    [self EXCEPT !.address_part_of_thing = _path_thing_feature_format(feature_id)]

(* Message.envelope() without header arguments.                            *)
Message_envelope(self) ==
    LET payload == IF ~HasConverter(self.payload) THEN self.payload
                   ELSE to_ditto_dict(self.payload)
    IN  [NewEnvelope EXCEPT
            !.topic = TopicRef(self.topic),
            !.path = JStr(Message__path_messages_format(
                             self.address_part_of_thing, self.mailbox, self.subject)),
            !.value = payload,
            !.headers = NewHeaders]

(* A Message with the last feature, inbox or outbox, and with_payload      *)
(* calls made on it, whether feature was called after the last inbox or    *)
(* outbox call, and the envelope taken from it.                            *)
NoMessage ==
    [self |-> Message__init__(SampleThingId),
     feature_call |-> NoSignalCall,
     box_call |-> NoSignalCall,
     payload_call |-> NoSignalCall,
     feature_after_box |-> FALSE,
     env |-> NotBuilt]

-----------------------------------------------------------------------------
(* ditto.model.thing.Thing: the thing id, the policy id by its string, the *)
(* attributes by their keys, the namespace and the revision; definition,   *)
(* features, created, modified and metadata are left None.                 *)

(* A reference to a NamespacedID, or None.                                 *)
NoIdRef == [is_none |-> TRUE, obj |-> NewNamespacedID]
IdRef(id) == [is_none |-> FALSE, obj |-> id]

(* Thing.__init__(thing_id): the namespace is that of the thing id, or     *)
(* None when no thing id is given.                                         *)
Thing__init__(thing_id) ==
    [thing_id |-> thing_id,
     policy_id |-> NoneV,
     attributes |-> JEmptyDict,
     namespace |-> IF ~thing_id.is_none THEN thing_id.obj.namespace ELSE NoneV,
     revision |-> NoneV]

(* A with_id that also takes the namespace of the new thing id.            *)
Thing_with_id_and_namespace(self, thing_id) ==
    [self EXCEPT !.thing_id = thing_id,
                 !.namespace = IF ~thing_id.is_none THEN thing_id.obj.namespace
                               ELSE NoneV]

Thing_with_id(self, thing_id) == [self EXCEPT !.thing_id = thing_id]

(* with_id_from: NamespacedID().from_string(thing_id_str), whose error     *)
(* leaves the thing as it was.                                             *)
Thing_with_id_from(self, thing_id_str) ==
    LET r == NamespacedID_from_string(NewNamespacedID, thing_id_str)
    IN  IF r.raised THEN [self |-> self, raised |-> TRUE]
        ELSE [self |-> [self EXCEPT !.thing_id = IdRef(r.self)], raised |-> FALSE]

Thing_with_policy_id(self, policy_id) ==
    [self EXCEPT !.policy_id = NamespacedID__str__(policy_id)]

(* with_policy_id_from calls from_string on the class, so the string takes *)
(* the place of self and is returned as it is.                             *)
Thing_with_policy_id_from(self, policy_id_str) ==
    [self EXCEPT !.policy_id = policy_id_str]

Thing_with_attribute(self, attribute_id) ==
    [self EXCEPT !.attributes =
        IF \E i \in 2..Len(@) : @[i] = attribute_id THEN @ ELSE Append(@, attribute_id)]

Thing_keys_all == {"thingId", "policyId", "definition", "attributes", "features",
                   "_namespace", "_revision", "_created", "_modified", "_metadata"}

(* Thing.to_ditto_dict: thingId and policyId when truthy, then the filter  *)
(* that drops None, the string None and the empty dict.                    *)
Thing_to_ditto_dict(self) ==
    LET thing_dict ==
            (IF ~self.thing_id.is_none
             THEN {<<"thingId", JStr(NamespacedID__str__(self.thing_id.obj))>>}
             ELSE {})
            \cup (IF Truthy(self.policy_id)
                  THEN {<<"policyId", JStr(self.policy_id)>>} ELSE {})
            \cup {<<"attributes", self.attributes>>}
            \cup {<<"_namespace", IF self.namespace = NoneV THEN NoneV
                                  ELSE JStr(self.namespace)>>}
            \cup {<<"_revision", self.revision>>}
    IN  {item \in thing_dict :
            /\ item[2] # NoneV
            /\ item[2] # JStr(<<"N", "o", "n", "e">>)
            /\ item[2] # JEmptyDict}

(* Thing.from_ditto_dict on a dict of thingId, policyId, _revision and     *)
(* _namespace entries: the setters in the order of the code, an error of   *)
(* with_id_from ending the call.                                           *)
Thing_from_ditto_dict(self, ditto_dictionary) ==
    LET keys == Keys(ditto_dictionary)
        text(key) == Tail(Get(ditto_dictionary, key))
    IN  IF keys \cap Thing_keys_all = {}
        THEN [self |-> self, raised |-> FALSE, returned |-> "input"]
        ELSE LET a == IF "thingId" \in keys
                      THEN Thing_with_id_from(self, text("thingId"))
                      ELSE [self |-> self, raised |-> FALSE]
                 b == IF "policyId" \in keys
                      THEN Thing_with_policy_id_from(a.self, text("policyId"))
                      ELSE a.self
                 c == IF "_revision" \in keys
                      THEN [b EXCEPT !.revision = Get(ditto_dictionary, "_revision")]
                      ELSE b
                 d == IF "_namespace" \in keys
                      THEN [c EXCEPT !.namespace = text("_namespace")]
                      ELSE c
             IN  IF a.raised THEN [self |-> self, raised |-> TRUE, returned |-> "none"]
                 ELSE [self |-> d, raised |-> FALSE, returned |-> "self"]

(* No identifier, envelope or builder has been constructed.               *)
Absent == [constructed |-> FALSE]

ModelIdle ==
    /\ the_id = Absent
    /\ the_envelope = Absent
    /\ the_command = Absent
    /\ the_event = Absent
    /\ the_message = Absent
    /\ the_thing = Absent
    /\ failed = <<>>

-----------------------------------------------------------------------------
(* The state after Client.__init__.                                        *)

NoCall == [op |-> "none", args |-> <<>>, i |-> 0, before |-> <<>>, err |-> FALSE]
NoMsg == [id |-> 0, topic |-> <<>>, payload |-> "none", i |-> 0,
          req |-> <<>>, env |-> NoneV, decoded |-> FALSE, err |-> FALSE,
          launched |-> <<>>]

InitClient ==
    /\ handlers = <<>>
    /\ mutex = Free
    /\ readers = 0
    /\ pc = [t \in Writers \cup Dispatchers |-> "idle"]
    /\ call = [w \in Writers |-> NoCall]
    /\ disp = [d \in Dispatchers |-> NoMsg]
    /\ units = <<>>
    /\ nmsgs = 0
    /\ ncalls = 0

-----------------------------------------------------------------------------
(* _RWLock *)

(* A lock_read that counts the reader without acquiring the lock.         *)
lock_read_unlocked(t) ==
    /\ readers' = readers + 1
    /\ UNCHANGED mutex

(* A lock_read that lets the callers waiting in lock_write go first.       *)
lock_read_behind_writers(t) ==
    /\ mutex = Free
    /\ \A x \in DOMAIN pc : pc[x] # "waiting"
    /\ readers' = readers + 1
    /\ UNCHANGED mutex

(* lock_read: acquire the condition's lock, count the reader, release.     *)
lock_read(t) ==
    /\ mutex = Free
    /\ readers' = readers + 1
    /\ UNCHANGED mutex

(* An unlock_read that first joins the handler threads of its message.    *)
unlock_read_joining(t) ==
    /\ \A k \in 1..Len(units) : units[k].msg # disp[t].id
    /\ mutex = Free
    /\ readers' = readers - 1
    /\ UNCHANGED mutex
    /\ pc' = [x \in DOMAIN pc |->
                IF x = t THEN "idle"
                ELSE IF readers' = 0 /\ pc[x] = "waiting" THEN "woken"
                ELSE pc[x]]

(* unlock_read: acquire, uncount the reader, notifyAll when none is left,  *)
(* release. Threads in wait() are woken and must reacquire the lock.       *)
unlock_read(t) ==
    /\ mutex = Free
    /\ readers' = readers - 1
    /\ UNCHANGED mutex
    /\ pc' = [x \in DOMAIN pc |->
                IF x = t THEN "idle"
                ELSE IF readers' = 0 /\ pc[x] = "waiting" THEN "woken"
                ELSE pc[x]]

(* A lock_write that does not wait for the readers to leave.               *)
lock_write_ignoring_readers(t) ==
    /\ mutex = Free
    /\ pc' = [pc EXCEPT ![t] = IF call[t].args = <<>> THEN "unlock" ELSE "body"]
    /\ mutex' = t
    /\ UNCHANGED readers

(* lock_write: acquire the lock; while readers > 0, wait() releases it     *)
(* and blocks until notified. Returns holding the lock.                    *)
lock_write(t) ==
    /\ mutex = Free
    /\ IF readers > 0
       THEN /\ pc' = [pc EXCEPT ![t] = "waiting"]
            /\ UNCHANGED mutex
       ELSE /\ pc' = [pc EXCEPT ![t] =
                        IF call[t].args = <<>> THEN "unlock" ELSE "body"]
            /\ mutex' = t
    /\ UNCHANGED readers

(* unlock_write: release the lock.                                         *)
unlock_write(t) ==
    /\ mutex' = Free
    /\ UNCHANGED readers

-----------------------------------------------------------------------------
(* Client.subscribe and Client.unsubscribe, one caller thread w.           *)

PendingAdds ==
    LET left(w) == IF call[w].op = "subscribe" /\ pc[w] # "idle"
                   THEN Len(call[w].args) - call[w].i ELSE 0
    IN  left("w1") + left("w2")

BeginCall(w, tuples) ==
    /\ pc[w] = "idle"
    /\ ncalls < MaxCalls
    /\ \E op \in {"subscribe", "unsubscribe"}, args \in tuples :
          /\ op = "subscribe" =>
                Len(handlers) + PendingAdds + Len(args) <= MaxHandlers
          /\ call' = [call EXCEPT ![w] =
                        [op |-> op, args |-> args, i |-> 0,
                         before |-> <<>>, err |-> FALSE]]
    /\ pc' = [pc EXCEPT ![w] = "lock"]
    /\ ncalls' = ncalls + 1
    /\ UNCHANGED <<handlers, mutex, readers, disp, units, nmsgs, notifyVars, publishVars, topicVars, modelVars>>

LockWrite(w) ==
    /\ pc[w] \in {"lock", "woken"}
    /\ lock_write(w)
    /\ call' = [call EXCEPT ![w].before = handlers]
    /\ UNCHANGED <<handlers, disp, units, nmsgs, ncalls, notifyVars, publishVars, topicVars, modelVars>>

(* The tuple unsubscribe iterates: *args is a tuple and never None.        *)
funcs_to_remove(args) == IF args = NoneV THEN handlers ELSE args

NextPc(w, n) == IF call[w].i + 1 = n THEN "unlock" ELSE "body"

(* A subscribe that keeps the handlers as a set: a handler already        *)
(* registered is not added again.                                          *)
SubscribeStepUnique(w) ==
    /\ pc[w] = "body"
    /\ call[w].op = "subscribe"
    /\ handlers' = IF call[w].args[call[w].i + 1] \in Range(handlers)
                   THEN handlers
                   ELSE Append(handlers, call[w].args[call[w].i + 1])
    /\ call' = [call EXCEPT ![w].i = @ + 1]
    /\ pc' = [pc EXCEPT ![w] = NextPc(w, Len(call[w].args))]
    /\ UNCHANGED <<mutex, readers, disp, units, nmsgs, ncalls, notifyVars, publishVars, topicVars, modelVars>>

SubscribeStep(w) ==
    /\ pc[w] = "body"
    /\ call[w].op = "subscribe"
    /\ handlers' = Append(handlers, call[w].args[call[w].i + 1])
    /\ call' = [call EXCEPT ![w].i = @ + 1]
    /\ pc' = [pc EXCEPT ![w] = NextPc(w, Len(call[w].args))]
    /\ UNCHANGED <<mutex, readers, disp, units, nmsgs, ncalls, notifyVars, publishVars, topicVars, modelVars>>

\* One iteration of the loop over funcs_to_remove, self._handlers.remove(func):
\* ValueError leaves the loop for the except clause, which logs it.
UnsubscribeStep(w) ==
    /\ pc[w] = "body"
    /\ call[w].op = "unsubscribe"
    /\ LET funcs == funcs_to_remove(call[w].args)
           func == funcs[call[w].i + 1]
       IN  IF func \in Range(handlers)
           THEN /\ handlers' = ListRemove(handlers, func)
                /\ call' = [call EXCEPT ![w].i = @ + 1]
                /\ pc' = [pc EXCEPT ![w] = NextPc(w, Len(funcs))]
           ELSE /\ call' = [call EXCEPT ![w].err = TRUE]
                /\ pc' = [pc EXCEPT ![w] = "unlock"]
                /\ UNCHANGED handlers
    /\ UNCHANGED <<mutex, readers, disp, units, nmsgs, ncalls, notifyVars, publishVars, topicVars, modelVars>>

UnlockWrite(w) ==
    /\ pc[w] = "unlock"
    /\ unlock_write(w)
    /\ pc' = [pc EXCEPT ![w] = "idle"]
    /\ call' = [call EXCEPT ![w] = NoCall]
    /\ UNCHANGED <<handlers, disp, units, nmsgs, ncalls, notifyVars, publishVars, topicVars, modelVars>>

-----------------------------------------------------------------------------
(* Client._on_paho_message, one transport thread d.                        *)

Deliver(d, messages) ==
    /\ pc[d] = "idle"
    /\ nmsgs < MaxMsgs
    /\ \E msg \in messages :
          disp' = [disp EXCEPT ![d] =
                     [NoMsg EXCEPT !.id = nmsgs + 1, !.topic = msg.topic,
                                   !.payload = msg.payload]]
    /\ nmsgs' = nmsgs + 1
    /\ pc' = [pc EXCEPT ![d] = "lock_read"]
    /\ UNCHANGED <<handlers, mutex, readers, call, units, ncalls, notifyVars, publishVars, topicVars, modelVars>>

LockRead(d) ==
    /\ pc[d] = "lock_read"
    /\ lock_read(d)
    /\ pc' = [pc EXCEPT ![d] = "check"]
    /\ UNCHANGED <<handlers, call, disp, units, nmsgs, ncalls, notifyVars, publishVars, topicVars, modelVars>>

(* A callback that returns without unlock_read when no handler is         *)
(* registered.                                                             *)
DecodeReturning(d) ==
    /\ pc[d] = "check"
    /\ IF handlers = NoneV \/ Len(handlers) = 0
       THEN /\ pc' = [pc EXCEPT ![d] = "idle"]
            /\ disp' = [disp EXCEPT ![d] = NoMsg]
       ELSE IF ~JsonLoads(disp[d].payload)
       THEN /\ pc' = [pc EXCEPT ![d] = "unlock_read"]
            /\ disp' = [disp EXCEPT ![d].err = TRUE]
       ELSE /\ pc' = [pc EXCEPT ![d] = "launch"]
            /\ disp' = [disp EXCEPT ![d].env = _get_envelope(disp[d].payload),
                                    ![d].req = _extract_hono_req_id(disp[d].topic),
                                    ![d].decoded = TRUE]
    /\ UNCHANGED <<handlers, mutex, readers, call, units, nmsgs, ncalls, notifyVars, publishVars, topicVars, modelVars>>

(* From the emptiness test to the head of the for loop: return when no     *)
(* handler is registered, decode the payload (an error is logged by the    *)
(* except clause), extract the request id.                                 *)
Decode(d) ==
    /\ pc[d] = "check"
    /\ IF handlers = NoneV \/ Len(handlers) = 0
       THEN /\ pc' = [pc EXCEPT ![d] = "unlock_read"]
            /\ UNCHANGED disp
       ELSE IF ~JsonLoads(disp[d].payload)
       THEN /\ pc' = [pc EXCEPT ![d] = "unlock_read"]
            /\ disp' = [disp EXCEPT ![d].err = TRUE]
       ELSE /\ pc' = [pc EXCEPT ![d] = "launch"]
            /\ disp' = [disp EXCEPT ![d].env = _get_envelope(disp[d].payload),
                                    ![d].req = _extract_hono_req_id(disp[d].topic),
                                    ![d].decoded = TRUE]
    /\ UNCHANGED <<handlers, mutex, readers, call, units, nmsgs, ncalls, notifyVars, publishVars, topicVars, modelVars>>

(* A loop that returns after starting the first handler thread.           *)
LaunchFirst(d) ==
    /\ pc[d] = "launch"
    /\ IF disp[d].i < Len(handlers) /\ disp[d].i = 0
       THEN /\ units' = Append(units,
                   [msg |-> disp[d].id, h |-> handlers[disp[d].i + 1]])
            /\ disp' = [disp EXCEPT ![d].i = @ + 1,
                                    ![d].launched = Append(@,
                                        [target |-> handlers[disp[d].i + 1],
                                         args |-> <<disp[d].req, disp[d].env>>])]
            /\ UNCHANGED pc
       ELSE /\ pc' = [pc EXCEPT ![d] = "unlock_read"]
            /\ UNCHANGED <<units, disp>>
    /\ UNCHANGED <<handlers, mutex, readers, call, nmsgs, ncalls, notifyVars, publishVars, topicVars, modelVars>>

(* A loop that calls the handler in place of starting a thread for it: the *)
(* next iteration waits for the handler to return.                         *)
LaunchInline(d) ==
    /\ pc[d] = "launch"
    /\ \A k \in 1..Len(units) : units[k].msg # disp[d].id
    /\ IF disp[d].i < Len(handlers)
       THEN /\ units' = Append(units,
                   [msg |-> disp[d].id, h |-> handlers[disp[d].i + 1]])
            /\ disp' = [disp EXCEPT ![d].i = @ + 1,
                                    ![d].launched = Append(@,
                                        [target |-> handlers[disp[d].i + 1],
                                         args |-> <<disp[d].req, disp[d].env>>])]
            /\ UNCHANGED pc
       ELSE /\ pc' = [pc EXCEPT ![d] = "unlock_read"]
            /\ UNCHANGED <<units, disp>>
    /\ UNCHANGED <<handlers, mutex, readers, call, nmsgs, ncalls, notifyVars, publishVars, topicVars, modelVars>>

\* One iteration of the loop over self._handlers: the list iterator reads
\* the live list by index; Thread(...).start() returns at once.
Launch(d) ==
    /\ pc[d] = "launch"
    /\ IF disp[d].i < Len(handlers)
       THEN /\ units' = Append(units,
                   [msg |-> disp[d].id, h |-> handlers[disp[d].i + 1]])
            /\ disp' = [disp EXCEPT ![d].i = @ + 1,
                                    ![d].launched = Append(@,
                                        [target |-> handlers[disp[d].i + 1],
                                         args |-> <<disp[d].req, disp[d].env>>])]
            /\ UNCHANGED pc
       ELSE /\ pc' = [pc EXCEPT ![d] = "unlock_read"]
            /\ UNCHANGED <<units, disp>>
    /\ UNCHANGED <<handlers, mutex, readers, call, nmsgs, ncalls, notifyVars, publishVars, topicVars, modelVars>>

UnlockRead(d) ==
    /\ pc[d] = "unlock_read"
    /\ unlock_read(d)
    /\ disp' = [disp EXCEPT ![d] = NoMsg]
    /\ UNCHANGED <<handlers, call, units, nmsgs, ncalls, notifyVars, publishVars, topicVars, modelVars>>

(* A handler thread ends. Nothing makes it: a handler may run forever.     *)
UnitEnds(k) ==
    /\ units' = SubSeq(units, 1, k - 1) \o SubSeq(units, k + 1, Len(units))
    /\ UNCHANGED <<handlers, mutex, readers, pc, call, disp, nmsgs, ncalls, notifyVars, publishVars, topicVars, modelVars>>

-----------------------------------------------------------------------------

-----------------------------------------------------------------------------
(* Client.__notify_client_on_connect and __notify_client_on_disconnect.    *)
(* Time is counted in the unit of time.time() and Thread.join: seconds.    *)

LOG_LEVEL_ERROR == 8
LOG_LEVEL_DEBUG == 16
JoinTimeout == 60
TimedOutAfter == 60 * 1000

NoNotif == [pc |-> "idle", kind |-> "none", thread |-> "none",
            waited |-> 0, late |-> 0, alive |-> FALSE]

InitNotify ==
    /\ on_connect \in {NoneV, <<"callback">>}
    /\ on_disconnect \in {NoneV, <<"callback">>}
    /\ notif = NoNotif
    /\ nlog = <<>>
    /\ nnotifs = 0

NotifyIdle ==
    /\ on_connect = NoneV
    /\ on_disconnect = NoneV
    /\ notif = NoNotif
    /\ nlog = <<>>
    /\ nnotifs = 0

NoPublish == [pc |-> "idle", topic |-> <<>>,
              ditto_dict |-> [status |-> [is_none |-> TRUE, int |-> 0],
                              value |-> "none"],
              err |-> "none", raised |-> "none"]

PublishIdle ==
    /\ pub = NoPublish
    /\ plog = <<>>
    /\ published = <<>>
    /\ nsends = 0

Callback(kind) == IF kind = "on_connect" THEN on_connect ELSE on_disconnect

(* Entry: return when no callback is set; else start the callback on its   *)
(* own thread, read the clock and enter join(60).                          *)
NotifyStart(kind) ==
    /\ notif.pc \in {"idle", "done"}
    /\ nnotifs < MaxNotifs
    /\ nnotifs' = nnotifs + 1
    /\ IF Callback(kind) = NoneV
       THEN notif' = [NoNotif EXCEPT !.pc = "done", !.kind = kind]
       ELSE notif' = [NoNotif EXCEPT !.pc = "join", !.kind = kind,
                                     !.thread = "running"]
    /\ UNCHANGED <<on_connect, on_disconnect, nlog, clientVars, publishVars, topicVars, modelVars>>

(* The callback returns (or raises): its thread ends.                      *)
CallbackEnds ==
    /\ notif.thread = "running"
    /\ notif' = [notif EXCEPT !.thread = "ended"]
    /\ UNCHANGED <<on_connect, on_disconnect, nlog, nnotifs, clientVars, publishVars, topicVars, modelVars>>

(* A time unit passes while the notifier is in join, or between the end of *)
(* join and the reading of the clock.                                      *)
Tick ==
    /\ \/ /\ notif.pc = "join"
          /\ notif.waited < JoinTimeout
          /\ notif' = [notif EXCEPT !.waited = @ + 1]
       \/ /\ notif.pc = "joined"
          /\ notif.late < MaxLate
          /\ notif' = [notif EXCEPT !.late = @ + 1]
    /\ UNCHANGED <<on_connect, on_disconnect, nlog, nnotifs, clientVars, publishVars, topicVars, modelVars>>

(* join(60) returns: the thread has ended, or 60 time units have passed.   *)
JoinReturns ==
    /\ notif.pc = "join"
    /\ notif.thread = "ended" \/ notif.waited = JoinTimeout
    /\ notif' = [notif EXCEPT !.pc = "joined"]
    /\ UNCHANGED <<on_connect, on_disconnect, nlog, nnotifs, clientVars, publishVars, topicVars, modelVars>>

(* The test after join and the log entry it selects.                       *)
NotifyLog ==
    /\ notif.pc = "joined"
    /\ LET is_alive == notif.thread = "running"
           elapsed == notif.waited + notif.late
       IN  /\ nlog' = Append(nlog,
                  IF is_alive /\ elapsed > TimedOutAfter
                  THEN [level |-> LOG_LEVEL_ERROR, text |-> "timed out waiting",
                        kind |-> notif.kind]
                  ELSE [level |-> LOG_LEVEL_DEBUG, text |-> "successfully notified",
                        kind |-> notif.kind])
           /\ notif' = [notif EXCEPT !.pc = "done", !.alive = is_alive]
    /\ UNCHANGED <<on_connect, on_disconnect, nnotifs, clientVars, publishVars, topicVars, modelVars>>

NextNotify ==
    \/ \E kind \in {"on_connect", "on_disconnect"} : NotifyStart(kind)
    \/ CallbackEnds
    \/ Tick
    \/ JoinReturns
    \/ NotifyLog

InitNotifier == InitClient /\ InitNotify /\ PublishIdle /\ InitTopic /\ ModelIdle

SpecNotify == InitNotifier /\ [][NextNotify]_vars

-----------------------------------------------------------------------------
(* Client.send, Client.reply and Client._publish, one calling thread.      *)

RECURSIVE DecimalDigits(_)
DecimalDigits(n) ==
    LET d == <<"0","1","2","3","4","5","6","7","8","9">>[(n % 10) + 1]
    IN  IF n < 10 THEN <<d>> ELSE DecimalDigits(n \div 10) \o <<d>>

(* Envelope.status: None or an int.                                        *)
NoStatus == [is_none |-> TRUE, int |-> 0]
Status(n) == [is_none |-> FALSE, int |-> n]

(* The text that format() puts in place of a status.                       *)
StatusStr(status) ==
    IF status.is_none THEN Str(NoneV) ELSE DecimalDigits(status.int)

ResPrefix == <<"c","o","m","m","a","n","d","/","/","/","r","e","s","/">>

_generate_hono_response_topic(request_id, status) ==
    ResPrefix \o Str(request_id) \o <<"/">> \o StatusStr(status)

EventsTopic == <<"e">>

(* The envelopes handed to send and reply: a status and a value that       *)
(* json.dumps can or cannot encode.                                        *)
OutEnvelopes ==
    [status : {NoStatus, Status(204)}, value : {"json_value", "not_serializable"}]

RequestIds == {<<"4","2">>, <<>>}

JsonDumps(ditto_dict) == ditto_dict.value # "not_serializable"

-----------------------------------------------------------------------------
_publish_begin(mqtt_topic, message) ==
    /\ pub.pc \in {"idle", "returned", "raised"}
    /\ nsends < MaxSends
    /\ nsends' = nsends + 1
    /\ pub' = [pc |-> "dumps", topic |-> mqtt_topic, ditto_dict |-> message,
               err |-> "none", raised |-> "none"]
    /\ UNCHANGED <<plog, published, clientVars, notifyVars, topicVars, modelVars>>

Reply(request_id, message) ==
    _publish_begin(_generate_hono_response_topic(request_id, message.status),
                   message)

Send(message) == _publish_begin(EventsTopic, message)

(* json.dumps(ditto_dict) raises TypeError on a value it cannot encode.    *)
PublishDumps ==
    /\ pub.pc = "dumps"
    /\ IF JsonDumps(pub.ditto_dict)
       THEN pub' = [pub EXCEPT !.pc = "publish"]
       ELSE pub' = [pub EXCEPT !.pc = "except", !.err = "TypeError"]
    /\ UNCHANGED <<plog, published, nsends, clientVars, notifyVars, topicVars, modelVars>>

(* self._paho_client.publish(topic, json_buf, qos, retained): the          *)
(* transport accepts the message or raises.                                *)
PublishTransport ==
    /\ pub.pc = "publish"
    /\ \/ /\ published' = Append(published,
                 [topic |-> pub.topic, payload |-> pub.ditto_dict,
                  qos |-> 1, retained |-> FALSE])
          /\ pub' = [pub EXCEPT !.pc = "returned"]
       \/ /\ pub' = [pub EXCEPT !.pc = "except", !.err = "TransportError"]
          /\ UNCHANGED published
    /\ UNCHANGED <<plog, nsends, clientVars, notifyVars, topicVars, modelVars>>

(* An except clause that re-raises without the log entry.                  *)
PublishExceptNoLog ==
    /\ pub.pc = "except"
    /\ pub' = [pub EXCEPT !.pc = "raise"]
    /\ UNCHANGED <<plog, published, nsends, clientVars, notifyVars, topicVars, modelVars>>

(* The except clause: the error is logged ...                              *)
PublishExcept ==
    /\ pub.pc = "except"
    /\ plog' = Append(plog, [level |-> LOG_LEVEL_ERROR,
                             text |-> "could not send the provided message",
                             message |-> pub.ditto_dict, err |-> pub.err,
                             send |-> nsends])
    /\ pub' = [pub EXCEPT !.pc = "raise"]
    /\ UNCHANGED <<published, nsends, clientVars, notifyVars, topicVars, modelVars>>

(* ... and raised again to the caller of send or reply.                    *)
PublishRaise ==
    /\ pub.pc = "raise"
    /\ pub' = [pub EXCEPT !.pc = "raised", !.raised = pub.err]
    /\ UNCHANGED <<plog, published, nsends, clientVars, notifyVars, topicVars, modelVars>>

(* A thread that sends and replies beside a thread that subscribes and     *)
(* unsubscribes one handler.                                               *)
NextPublish ==
    \/ \E message \in OutEnvelopes : Send(message)
    \/ \E request_id \in RequestIds, message \in OutEnvelopes :
          Reply(request_id, message)
    \/ PublishDumps
    \/ PublishTransport
    \/ PublishExcept
    \/ PublishRaise
    \/ BeginCall("w1", {<<"h1">>})
    \/ LockWrite("w1")
    \/ SubscribeStep("w1")
    \/ UnsubscribeStep("w1")
    \/ UnlockWrite("w1")

InitPublish == InitClient /\ NotifyIdle /\ PublishIdle /\ InitTopic /\ ModelIdle

SpecPublish == InitPublish /\ [][NextPublish]_vars

-----------------------------------------------------------------------------
(* The client with caller threads W handing subscribe/unsubscribe the       *)
(* argument tuples of tuples, and transport threads D delivering the       *)
(* messages of messages.                                                   *)
ClientNext(W, D, tuples, messages) ==
    \/ \E w \in W : BeginCall(w, tuples)
    \/ \E w \in W : LockWrite(w)
    \/ \E w \in W : SubscribeStep(w)
    \/ \E w \in W : UnsubscribeStep(w)
    \/ \E w \in W : UnlockWrite(w)
    \/ \E d \in D : Deliver(d, messages)
    \/ \E d \in D : LockRead(d)
    \/ \E d \in D : Decode(d)
    \/ \E d \in D : Launch(d)
    \/ \E d \in D : UnlockRead(d)
    \/ \E k \in 1..Len(units) : UnitEnds(k)

(* One caller thread and the transport's loop thread, every argument tuple *)
(* and every sample message.                                               *)
Init == InitClient /\ NotifyIdle /\ PublishIdle /\ InitTopic /\ ModelIdle

(* The argument tuples handed to subscribe and unsubscribe: every tuple of  *)
(* up to MaxHandlers handlers, and one that names an unregistered handler  *)
(* between two registered ones.                                            *)
ArgTuples == SeqsUpTo(Handlers, MaxHandlers) \cup {<<"h1", "h2", "h1">>}

Next == ClientNext({"w1"}, {"d1"}, ArgTuples, SampleMessages)

Spec == Init /\ [][Next]_vars

(* Two caller threads and two transport threads, one handler.              *)
InitThreads == InitClient /\ NotifyIdle /\ PublishIdle /\ InitTopic /\ ModelIdle

NextThreads ==
    ClientNext(Writers, Dispatchers, {<<>>, <<"h1">>},
               {[topic |-> RequestTopic, payload |-> "envelope_json"]})

SpecThreads == InitThreads /\ [][NextThreads]_vars

-----------------------------------------------------------------------------
(* SpecLock: one caller thread and two transport threads, calls of two     *)
(* handlers, calls that fail, messages that decode and one that does not.  *)
(* Every thread that can take a step of its call or of its dispatch        *)
(* eventually takes one.                                                   *)

(* The steps of one call and of one callback after they have begun.       *)
WriterStep(w) ==
    LockWrite(w) \/ SubscribeStep(w) \/ UnsubscribeStep(w) \/ UnlockWrite(w)

DispatcherStep(d) == LockRead(d) \/ Decode(d) \/ Launch(d) \/ UnlockRead(d)

InitLock == InitClient /\ NotifyIdle /\ PublishIdle /\ InitTopic /\ ModelIdle

NextLock ==
    ClientNext({"w1"}, Dispatchers, {<<"h1", "h2">>},
               {[topic |-> RequestTopic, payload |-> "envelope_json"],
                [topic |-> RequestTopic, payload |-> "not_json"]})

SpecLock ==
    /\ InitLock
    /\ [][NextLock]_vars
    /\ WF_vars(WriterStep("w1"))
    /\ \A d \in Dispatchers : WF_vars(DispatcherStep(d))

-----------------------------------------------------------------------------
(* SpecRegistry: one caller thread and one transport thread, starting from *)
(* any handler list that earlier subscribe calls can have left, of up to   *)
(* MaxRegistered entries.                                                  *)

InitRegistry ==
    /\ handlers \in SeqsUpTo(Handlers, MaxRegistered)
    /\ mutex = Free
    /\ readers = 0
    /\ pc = [t \in Writers \cup Dispatchers |-> "idle"]
    /\ call = [w \in Writers |-> NoCall]
    /\ disp = [d \in Dispatchers |-> NoMsg]
    /\ units = <<>>
    /\ nmsgs = 0
    /\ ncalls = 0
    /\ NotifyIdle /\ PublishIdle /\ InitTopic /\ ModelIdle

NextRegistry ==
    ClientNext({"w1"}, {"d1"},
               {<<"h1">>, <<"h1", "h2">>},
               {[topic |-> RequestTopic, payload |-> "envelope_json"]})

SpecRegistry == InitRegistry /\ [][NextRegistry]_vars

-----------------------------------------------------------------------------
(* SpecOrder: one caller thread and the one transport thread, calls of one *)
(* and of two handlers, messages that decode.                              *)

InitOrder == InitClient /\ NotifyIdle /\ PublishIdle /\ InitTopic /\ ModelIdle

NextOrder ==
    ClientNext({"w1"}, {"d1"}, {<<"h1">>, <<"h1", "h2">>},
               {[topic |-> RequestTopic, payload |-> "envelope_json"]})

SpecOrder == InitOrder /\ [][NextOrder]_vars

-----------------------------------------------------------------------------
(* SpecFail: handlers that raise. One caller thread, one transport thread. *)

(* A handler raises inside its own thread: the thread ends with the        *)
(* exception; here the exception is taken to reach the loop that started   *)
(* the thread, whose except clause ends the callback.                      *)
UnitRaisesInLoop(k) ==
    /\ Len(failed) < MaxFailed
    /\ failed' = Append(failed, units[k])
    /\ units' = SubSeq(units, 1, k - 1) \o SubSeq(units, k + 1, Len(units))
    /\ pc' = [x \in DOMAIN pc |->
                IF /\ x \in Dispatchers
                   /\ pc[x] = "launch"
                   /\ disp[x].id = units[k].msg
                THEN "unlock_read" ELSE pc[x]]
    /\ UNCHANGED <<handlers, mutex, readers, call, disp, nmsgs, ncalls, notifyVars, publishVars, topicVars>>
    /\ UNCHANGED <<the_id, the_envelope, the_command, the_event, the_message, the_thing>>

(* A handler raises inside its own thread: threading reports the exception *)
(* and the thread ends. The thread that started it is not involved.        *)
UnitRaises(k) ==
    /\ Len(failed) < MaxFailed
    /\ failed' = Append(failed, units[k])
    /\ units' = SubSeq(units, 1, k - 1) \o SubSeq(units, k + 1, Len(units))
    /\ UNCHANGED <<handlers, mutex, readers, pc, call, disp, nmsgs, ncalls, notifyVars, publishVars, topicVars>>
    /\ UNCHANGED <<the_id, the_envelope, the_command, the_event, the_message, the_thing>>

InitFail == InitClient /\ NotifyIdle /\ PublishIdle /\ InitTopic /\ ModelIdle

NextFail ==
    \/ ClientNext({"w1"}, {"d1"}, {<<>>, <<"h1">>, <<"h1", "h2">>},
                  {[topic |-> RequestTopic, payload |-> "envelope_json"]})
    \/ \E k \in 1..Len(units) : UnitRaises(k)

SpecFail == InitFail /\ [][NextFail]_vars

-----------------------------------------------------------------------------
(* SpecStarve: two caller threads and two transport threads, messages that *)
(* keep arriving. Every thread that can take a step of its call or of its  *)
(* dispatch eventually takes one; nothing makes a message arrive, a call   *)
(* begin or a handler thread end.                                          *)

(* The transport invokes _on_paho_message once more: deliveries are not    *)
(* counted, a delivery waits until the handler threads started so far have *)
(* ended.                                                                  *)
Redeliver(d) ==
    /\ pc[d] = "idle"
    /\ units = <<>>
    /\ disp' = [disp EXCEPT ![d] =
                  [NoMsg EXCEPT !.id = 1, !.topic = RequestTopic,
                                !.payload = "envelope_json"]]
    /\ pc' = [pc EXCEPT ![d] = "lock_read"]
    /\ UNCHANGED <<handlers, mutex, readers, call, units, nmsgs, ncalls, notifyVars, publishVars, topicVars, modelVars>>

InitStarve == InitClient /\ NotifyIdle /\ PublishIdle /\ InitTopic /\ ModelIdle

NextStarve ==
    \/ \E w \in Writers : BeginCall(w, {<<"h1">>})
    \/ \E w \in Writers : LockWrite(w)
    \/ \E w \in Writers : SubscribeStep(w)
    \/ \E w \in Writers : UnsubscribeStep(w)
    \/ \E w \in Writers : UnlockWrite(w)
    \/ \E d \in Dispatchers : Redeliver(d)
    \/ \E d \in Dispatchers : LockRead(d)
    \/ \E d \in Dispatchers : Decode(d)
    \/ \E d \in Dispatchers : Launch(d)
    \/ \E d \in Dispatchers : UnlockRead(d)
    \/ \E k \in 1..Len(units) : UnitEnds(k)

SpecStarve ==
    /\ InitStarve
    /\ [][NextStarve]_vars
    /\ \A w \in Writers : WF_vars(WriterStep(w))
    /\ \A d \in Dispatchers : WF_vars(DispatcherStep(d))

-----------------------------------------------------------------------------
(* Request ids: the transport thread delivers topics built from a prefix   *)
(* and a tail, to a client holding the handlers of earlier subscribe       *)
(* calls.                                                                  *)

TopicAlphabet == {"/", "a", "1"}

TopicPrefixes ==
    {ReqPrefix, ResPrefix, Tail(ReqPrefix), <<"x">> \o ReqPrefix, <<>>,
     SubSeq(ReqPrefix, 1, Len(ReqPrefix) - 1)}

TopicInputs ==
    {p \o t : p \in TopicPrefixes, t \in SeqsUpTo(TopicAlphabet, MaxTail)}

RequestMessages == {[topic |-> t, payload |-> "envelope_json"] : t \in TopicInputs}

InitRequests ==
    /\ handlers \in {<<>>, <<"h1">>, <<"h1", "h2">>}
    /\ mutex = Free
    /\ readers = 0
    /\ pc = [t \in Writers \cup Dispatchers |-> "idle"]
    /\ call = [w \in Writers |-> NoCall]
    /\ disp = [d \in Dispatchers |-> NoMsg]
    /\ units = <<>>
    /\ nmsgs = 0
    /\ ncalls = 0
    /\ NotifyIdle /\ PublishIdle /\ InitTopic
    /\ ModelIdle

NextRequests ==
    \/ Deliver("d1", RequestMessages)
    \/ LockRead("d1")
    \/ Decode("d1")
    \/ Launch("d1")
    \/ UnlockRead("d1")
    \/ \E k \in 1..Len(units) : UnitEnds(k)

SpecRequests == InitRequests /\ [][NextRequests]_vars

-----------------------------------------------------------------------------
(* Topics: with_* calls on one Topic, its string, the Topic parsed from    *)
(* the string and the string of that.                                      *)

Namespaces == SeqsUpTo({"n", "/"}, MaxName)
EntityIds == {<<"e">>, <<"e", "/">>}
Groups == {GROUP_THINGS, GROUP_POLICIES}
Channels == {NoneV, CHANNEL_TWIN, CHANNEL_LIVE}
Criteria == {CRITERION_COMMANDS, CRITERION_EVENTS, CRITERION_MESSAGES}
Actions == {NoneV, <<>>, ACTION_MODIFY, <<"a", "/", "b">>, CHANNEL_TWIN}

With(field, value) ==
    /\ topic' = [topic EXCEPT ![field] = value]
    /\ formatted' = NoneV
    /\ parsed' = NotParsed
    /\ reformatted' = NoneV
    /\ UNCHANGED <<clientVars, notifyVars, publishVars, modelVars>>

with_namespace(namespace) == With("namespace", namespace)
with_entity_id(entity_id) == With("entity_id", entity_id)
with_group(group) == With("group", group)
with_channel(channel) == With("channel", channel)
with_criterion(criterion) == With("criterion", criterion)
with_action(action) == With("action", action)

FormatTopic ==
    /\ formatted = NoneV
    /\ formatted' = Topic__str__(topic)
    /\ UNCHANGED <<topic, parsed, reformatted, clientVars, notifyVars, publishVars, modelVars>>

ParseFormatted ==
    /\ formatted # NoneV
    /\ ~parsed.called
    /\ parsed' = Topic_from_string(NewTopic, formatted)
    /\ UNCHANGED <<topic, formatted, reformatted, clientVars, notifyVars, publishVars, modelVars>>

FormatParsed ==
    /\ parsed.called
    /\ ~parsed.raised
    /\ reformatted = NoneV
    /\ reformatted' = Topic__str__(parsed.self)
    /\ UNCHANGED <<topic, formatted, parsed, clientVars, notifyVars, publishVars, modelVars>>

NextTopic ==
    \/ \E namespace \in Namespaces : with_namespace(namespace)
    \/ \E entity_id \in EntityIds : with_entity_id(entity_id)
    \/ \E group \in Groups : with_group(group)
    \/ \E channel \in Channels : with_channel(channel)
    \/ \E criterion \in Criteria : with_criterion(criterion)
    \/ \E action \in Actions : with_action(action)
    \/ FormatTopic
    \/ ParseFormatted
    \/ FormatParsed

InitTopics == InitClient /\ NotifyIdle /\ PublishIdle /\ InitTopic /\ ModelIdle

SpecTopic == InitTopics /\ [][NextTopic]_vars

-----------------------------------------------------------------------------
(* Topic.from_string on any string: the strings of up to MaxSegs segments  *)
(* joined by slashes, a segment being empty, the group things or a text    *)
(* that is no group.                                                       *)

ParseSegments == {<<>>, <<"x">>, GROUP_THINGS}

RECURSIVE JoinSlash(_)
JoinSlash(segments) ==
    IF Len(segments) = 1 THEN segments[1]
    ELSE segments[1] \o <<"/">> \o JoinSlash(Tail(segments))

ParseInputs ==
    {JoinSlash(segments) : segments \in SeqsUpTo(ParseSegments, MaxSegs) \ {<<>>}}

InitParse ==
    /\ InitClient /\ NotifyIdle /\ PublishIdle /\ ModelIdle
    /\ topic = NewTopic
    /\ formatted \in ParseInputs
    /\ parsed = NotParsed
    /\ reformatted = NoneV

NextParse ==
    \/ ParseFormatted
    \/ FormatParsed

SpecParse == InitParse /\ [][NextParse]_vars

-----------------------------------------------------------------------------
(* NamespacedID().from_string on any string of up to MaxIdLen characters.  *)

IdAlphabet == {":", "a", "b"}
IdInputs == SeqsUpTo(IdAlphabet, MaxIdLen)

modelFrame == <<clientVars, notifyVars, publishVars, topicVars>>

InitId ==
    /\ InitClient /\ NotifyIdle /\ PublishIdle /\ InitTopic
    /\ the_id \in {[NoId EXCEPT !.input = s] : s \in IdInputs}
    /\ the_envelope = Absent
    /\ the_command = Absent
    /\ the_event = Absent
    /\ the_message = Absent
    /\ the_thing = Absent
    /\ failed = <<>>

IdFromString ==
    /\ ~the_id.called
    /\ LET r == NamespacedID_from_string(the_id.self, the_id.input)
       IN  the_id' = [the_id EXCEPT !.self = r.self, !.raised = r.raised,
                                    !.returned = r.returned, !.called = TRUE]
    /\ UNCHANGED <<modelFrame, the_envelope, the_command, the_event, the_message, the_thing, failed>>

NextId == IdFromString

SpecId == InitId /\ [][NextId]_vars

-----------------------------------------------------------------------------
(* An Envelope built by its constructor and with_* calls, and its          *)
(* to_ditto_dict.                                                          *)

SampleTopic ==
    [namespace |-> <<"n">>, entity_id |-> <<"e">>, group |-> GROUP_THINGS,
     channel |-> CHANNEL_TWIN, criterion |-> CRITERION_COMMANDS,
     action |-> ACTION_MODIFY]

TopicRefs == {NoTopic, TopicRef(NewTopic), TopicRef(SampleTopic)}
HeadersChoices ==
    {NoHeaders, NewHeaders,
     HeadersOf({<<"correlation-id", JStr(<<"c">>)>>}),
     HeadersOf({<<"correlation-id", NoneV>>})}
PathValues == {NoneV, JStr(<<>>), JStr(<<"/">>)}
ValueValues ==
    {NoneV, JInt(<<"0">>), JFalse, JStr(<<>>), JEmptyDict, JStr(<<"v">>)}
FieldsValues == {NoneV, JStr(<<>>)}
ExtraValues == {NoneV, JEmptyDict}
StatusValues == {NoneV, JInt(<<"0">>), JInt(<<"2", "0", "4">>)}
RevisionValues == {NoneV, JInt(<<"0">>)}
TimestampValues == {NoneV, JStr(<<>>)}

envelopeFrame ==
    <<clientVars, notifyVars, publishVars, topicVars, the_id, the_command, the_event,
      the_message, the_thing, failed>>

InitEnvelope ==
    /\ InitClient /\ NotifyIdle /\ PublishIdle /\ InitTopic
    /\ the_id = Absent
    /\ the_command = Absent
    /\ the_event = Absent
    /\ the_message = Absent
    /\ the_thing = Absent
    /\ failed = <<>>
    /\ the_envelope \in
          {[NoEnvelope EXCEPT !.self =
                Envelope__init__(t, h, NoneV, NoneV, NoneV, NoneV, NoneV,
                                 NoneV, NoneV)] :
             t \in TopicRefs, h \in HeadersChoices}

EnvelopeWith(field, value) ==
    /\ ~the_envelope.called
    /\ the_envelope' = [the_envelope EXCEPT !.self[field] = value,
                                             !.ditto_dict = NotEncoded]
    /\ UNCHANGED envelopeFrame

Envelope_with_topic(ref) == EnvelopeWith("topic", ref)
Envelope_with_headers(headers) == EnvelopeWith("headers", headers)
Envelope_with_path(path) == EnvelopeWith("path", path)
Envelope_with_value(value) == EnvelopeWith("value", value)
Envelope_with_fields(fields) == EnvelopeWith("fields", fields)
Envelope_with_extra(extra) == EnvelopeWith("extra", extra)
Envelope_with_status(status) == EnvelopeWith("status", status)
Envelope_with_revision(revision) == EnvelopeWith("revision", revision)
Envelope_with_timestamp(timestamp) == EnvelopeWith("timestamp", timestamp)

ToDittoDict ==
    /\ ~the_envelope.ditto_dict.taken
    /\ the_envelope' =
          [the_envelope EXCEPT !.ditto_dict =
              [taken |-> TRUE, dict |-> Envelope_to_ditto_dict(the_envelope.self)]]
    /\ UNCHANGED envelopeFrame

NextEnvelope ==
    \/ \E ref \in TopicRefs : Envelope_with_topic(ref)
    \/ \E headers \in HeadersChoices : Envelope_with_headers(headers)
    \/ \E path \in PathValues : Envelope_with_path(path)
    \/ \E value \in ValueValues : Envelope_with_value(value)
    \/ \E fields \in FieldsValues : Envelope_with_fields(fields)
    \/ \E extra \in ExtraValues : Envelope_with_extra(extra)
    \/ \E status \in StatusValues : Envelope_with_status(status)
    \/ \E revision \in RevisionValues : Envelope_with_revision(revision)
    \/ \E timestamp \in TimestampValues : Envelope_with_timestamp(timestamp)
    \/ ToDittoDict

SpecEnvelope == InitEnvelope /\ [][NextEnvelope]_vars

-----------------------------------------------------------------------------
(* Envelope.from_ditto_dict on a dict, called on a new Envelope or on one  *)
(* that holds values, and to_ditto_dict after it.                          *)

HeldEnvelope ==
    Envelope__init__(TopicRef(SampleTopic),
                     HeadersOf({<<"correlation-id", JStr(<<"c">>)>>}),
                     JStr(<<"/", "o">>), JStr(<<"o">>), NoneV, NoneV,
                     JInt(<<"2", "0", "0">>), NoneV, NoneV)

TopicStrings ==
    {JoinSlash(<<<<"n">>, <<"e">>, GROUP_THINGS, CHANNEL_TWIN,
                 CRITERION_COMMANDS, ACTION_MODIFY>>),
     JoinSlash(<<<<"n">>, <<"e">>, GROUP_THINGS, CHANNEL_LIVE,
                 CRITERION_MESSAGES>>),
     JoinSlash(<<<<"n">>, <<"e">>, GROUP_POLICIES, CRITERION_COMMANDS,
                 ACTION_MODIFY>>),
     JoinSlash(<<<<"n">>, <<"e">>, GROUP_THINGS, CHANNEL_TWIN, <<>>,
                 ACTION_MODIFY>>),
     <<"n">>}

Items(key, values) == {{}} \cup {{<<key, v>>} : v \in values}

DictInputs ==
    {t \cup h \cup p \cup v \cup f \cup e \cup st \cup r \cup ts \cup x :
        t \in Items("topic", {JStr(chars) : chars \in TopicStrings}),
        h \in Items("headers", {{}, {<<"correlation-id", JStr(<<"c">>)>>}}),
        p \in Items("path", {JStr(<<"/">>)}),
        v \in Items("value", {NoneV, JInt(<<"0">>), JStr(<<"v">>)}),
        f \in Items("fields", {JStr(<<>>)}),
        e \in Items("extra", {JEmptyDict}),
        st \in Items("status", {JInt(<<"2", "0", "4">>)}),
        r \in Items("revision", {JInt(<<"0">>)}),
        ts \in Items("timestamp", {JStr(<<>>)}),
        x \in Items("features", {JEmptyDict})}

InitDecode ==
    /\ InitClient /\ NotifyIdle /\ PublishIdle /\ InitTopic
    /\ the_id = Absent
    /\ the_command = Absent
    /\ the_event = Absent
    /\ the_message = Absent
    /\ the_thing = Absent
    /\ failed = <<>>
    /\ the_envelope \in
          {[NoEnvelope EXCEPT !.self = self, !.ditto_dictionary = d] :
             self \in {NewEnvelope, HeldEnvelope}, d \in DictInputs}

FromDittoDict ==
    /\ ~the_envelope.called
    /\ LET r == Envelope_from_ditto_dict(the_envelope.self,
                                         the_envelope.ditto_dictionary)
       IN  the_envelope' =
             [the_envelope EXCEPT !.called = TRUE,
                                  !.before = the_envelope.self,
                                  !.self = r.self,
                                  !.raised = r.raised,
                                  !.returned = r.returned,
                                  !.ditto_dict = NotEncoded]
    /\ UNCHANGED envelopeFrame

NextDecode ==
    \/ FromDittoDict
    \/ ToDittoDict

SpecDecode == InitDecode /\ [][NextDecode]_vars

-----------------------------------------------------------------------------
(* SpecHook: _get_envelope on a payload whose top-level object may hold an *)
(* object under value. json.loads calls the object hook, the bound method  *)
(* from_ditto_dict of the one new Envelope, for every object of the text,  *)
(* the inner ones first, and puts what the hook returns in the place of    *)
(* the object.                                                             *)

JObject(dict) == <<"object", dict>>
IsObject(v) == Len(v) = 2 /\ v[1] = "object"

(* The Envelope itself, where the hook returned self for a nested object.  *)
SelfRef == <<"self">>

(* The hook on one value of the text: an object is handed to               *)
(* from_ditto_dict, anything else is left alone.                           *)
object_hook(self, v) ==
    IF IsObject(v)
    THEN LET r == Envelope_from_ditto_dict(self, v[2])
         IN  [self |-> r.self, raised |-> r.raised,
              value |-> IF r.returned = "self" THEN SelfRef ELSE v]
    ELSE [self |-> self, raised |-> FALSE, value |-> v]

(* _get_envelope: envelope = Envelope(); json.loads(payload, object_hook = *)
(* envelope.from_ditto_dict); return envelope. The hook runs on the object *)
(* under value, then on the top-level object with the hook's result in     *)
(* the place of that object. An exception of the hook leaves json.loads.   *)
_get_envelope_nested(ditto_dictionary) ==
    LET inner == IF "value" \in Keys(ditto_dictionary)
                 THEN object_hook(NewEnvelope, Get(ditto_dictionary, "value"))
                 ELSE [self |-> NewEnvelope, raised |-> FALSE, value |-> NoneV]
        outer == {item \in ditto_dictionary : item[1] # "value"}
                   \cup (IF "value" \in Keys(ditto_dictionary)
                         THEN {<<"value", inner.value>>} ELSE {})
        r == Envelope_from_ditto_dict(inner.self, outer)
    IN  IF inner.raised THEN [self |-> inner.self, raised |-> TRUE]
        ELSE [self |-> r.self, raised |-> r.raised]

NestedObjects ==
    {JObject(t \cup p \cup st) :
        t \in Items("topic", {JStr(chars) : chars \in TopicStrings}),
        p \in Items("path", {JStr(<<"/", "i">>)}),
        st \in Items("status", {JInt(<<"2", "0", "0">>)})}

HookInputs ==
    {t \cup h \cup p \cup v \cup st :
        t \in Items("topic", {JStr(chars) : chars \in TopicStrings}),
        h \in Items("headers", {{}, {<<"correlation-id", JStr(<<"c">>)>>}}),
        p \in Items("path", {JStr(<<"/">>)}),
        v \in Items("value", {JInt(<<"0">>), JStr(<<"v">>)} \cup NestedObjects),
        st \in Items("status", {JInt(<<"2", "0", "4">>)})}

NotLoaded == [called |-> FALSE, self |-> NewEnvelope, raised |-> FALSE]

InitHook ==
    /\ InitClient /\ NotifyIdle /\ PublishIdle /\ InitTopic
    /\ the_id = Absent
    /\ the_command = Absent
    /\ the_event = Absent
    /\ the_message = Absent
    /\ the_thing = Absent
    /\ failed = <<>>
    /\ the_envelope \in
          {[payload |-> d, loaded |-> NotLoaded] : d \in HookInputs}

GetEnvelope ==
    /\ ~the_envelope.loaded.called
    /\ LET r == _get_envelope_nested(the_envelope.payload)
       IN  the_envelope' =
             [the_envelope EXCEPT !.loaded =
                 [called |-> TRUE, self |-> r.self, raised |-> r.raised]]
    /\ UNCHANGED envelopeFrame

NextHook == GetEnvelope

SpecHook == InitHook /\ [][NextHook]_vars

-----------------------------------------------------------------------------
(* SpecCommand: a Command built for a thing id, any sequence of its action,*)
(* path and channel methods, then envelope().                              *)
(* SpecEvent: the same for an Event.                                       *)

Things == {Convertible("thing")}
Payloads == {NoneV, JInt(<<"4", "2">>), JStr(<<"v">>), Convertible("feature")}
FeatureIds == {<<"f">>, <<"g">>}
PropertyPaths == {<<"p">>}
AttributePaths == {<<"a">>}
RetrieveArgs == {<<>>, <<SampleThingId>>}

(* The calls of the path-targeting methods with these arguments.           *)
PathCalls ==
    {[name |-> n, args |-> <<>>] :
        n \in {"policy_id", "definition", "attributes", "features"}}
    \cup {[name |-> "attribute", args |-> <<a>>] : a \in AttributePaths}
    \cup {[name |-> n, args |-> <<f>>] :
            n \in {"feature", "feature_definition", "feature_properties",
                   "feature_desired_properties"},
            f \in FeatureIds}
    \cup {[name |-> n, args |-> <<f, q>>] :
            n \in {"feature_property", "feature_desired_property"},
            f \in FeatureIds, q \in PropertyPaths}

commandFrame ==
    <<clientVars, notifyVars, publishVars, topicVars, the_id, the_envelope, the_event,
      the_message, the_thing, failed>>
eventFrame ==
    <<clientVars, notifyVars, publishVars, topicVars, the_id, the_envelope, the_command,
      the_message, the_thing, failed>>

InitCommand ==
    /\ InitClient /\ NotifyIdle /\ PublishIdle /\ InitTopic
    /\ the_id = Absent
    /\ the_envelope = Absent
    /\ the_event = Absent
    /\ the_message = Absent
    /\ the_thing = Absent
    /\ failed = <<>>
    /\ the_command = NoCommand

InitEvent ==
    /\ InitClient /\ NotifyIdle /\ PublishIdle /\ InitTopic
    /\ the_id = Absent
    /\ the_envelope = Absent
    /\ the_command = Absent
    /\ the_message = Absent
    /\ the_thing = Absent
    /\ failed = <<>>
    /\ the_event = NoEvent

(* What a method call of a kind (action, path, channel) leaves in a        *)
(* builder: the object after the call, the value returned, and the call.   *)
Called(b, kind, name, args, result) ==
    LET this == [name |-> name, args |-> args]
    IN  [b EXCEPT !.self = result.self,
                  !.returned = result.returned,
                  !.last_call = name,
                  !.action_call = IF kind = "action" THEN this ELSE @,
                  !.path_call = IF kind = "path" THEN this ELSE @,
                  !.channel_call = IF kind = "channel" THEN this ELSE @,
                  !.created_since_path = IF name \in {"create", "created"} THEN TRUE
                                   ELSE IF kind = "path" THEN FALSE ELSE @]

CommandCall(kind, name, args, result) ==
    /\ ~the_command.env.taken
    /\ the_command' = Called(the_command, kind, name, args, result)
    /\ UNCHANGED commandFrame

EventCall(kind, name, args, result) ==
    /\ ~the_event.env.taken
    /\ the_event' = Called(the_event, kind, name, args, result)
    /\ UNCHANGED eventFrame

CommandCreate ==
    \E thing \in Things :
        CommandCall("action", "create", <<thing>>, Command_create(the_command.self, thing))

CommandModify ==
    \E payload \in Payloads :
        CommandCall("action", "modify", <<payload>>,
                    Command_modify(the_command.self, payload))

CommandRetrieve ==
    \E args \in RetrieveArgs :
        CommandCall("action", "retrieve", args, Command_retrieve(the_command.self, args))

CommandDelete ==
    CommandCall("action", "delete", <<>>, Command_delete(the_command.self))

CommandPath ==
    \E this \in PathCalls :
        CommandCall("path", this.name, this.args, Command_path(the_command.self, this))

CommandLive ==
    CommandCall("channel", "live", <<>>, Command_live(the_command.self))

CommandTwin ==
    CommandCall("channel", "twin", <<>>, Command_twin(the_command.self))

CommandEnvelope ==
    /\ ~the_command.env.taken
    /\ the_command' =
          [the_command EXCEPT !.returned = "envelope",
                              !.last_call = "envelope",
                              !.env = [taken |-> TRUE,
                                       self |-> Signal_envelope(the_command.self)]]
    /\ UNCHANGED commandFrame

NextCommand ==
    \/ CommandCreate
    \/ CommandModify
    \/ CommandRetrieve
    \/ CommandDelete
    \/ CommandPath
    \/ CommandLive
    \/ CommandTwin
    \/ CommandEnvelope

SpecCommand == InitCommand /\ [][NextCommand]_vars

EventCreated ==
    \E thing \in Things :
        EventCall("action", "created", <<thing>>, Event_created(the_event.self, thing))

EventModified ==
    \E payload \in Payloads :
        EventCall("action", "modified", <<payload>>,
                  Event_modified(the_event.self, payload))

EventDeleted ==
    EventCall("action", "deleted", <<>>, Event_deleted(the_event.self))

EventPath ==
    \E this \in PathCalls :
        EventCall("path", this.name, this.args, Event_path(the_event.self, this))

EventLive ==
    EventCall("channel", "live", <<>>, Event_live(the_event.self))

EventTwin ==
    EventCall("channel", "twin", <<>>, Event_twin(the_event.self))

EventEnvelope ==
    /\ ~the_event.env.taken
    /\ the_event' =
          [the_event EXCEPT !.returned = "envelope",
                            !.last_call = "envelope",
                            !.env = [taken |-> TRUE,
                                     self |-> Signal_envelope(the_event.self)]]
    /\ UNCHANGED eventFrame

NextEvent ==
    \/ EventCreated
    \/ EventModified
    \/ EventDeleted
    \/ EventPath
    \/ EventLive
    \/ EventTwin
    \/ EventEnvelope

SpecEvent == InitEvent /\ [][NextEvent]_vars

-----------------------------------------------------------------------------
(* SpecReuse: a Command that is used again after envelope(): up to         *)
(* MaxReuse action, path and channel calls, before or after the envelope   *)
(* is taken. produced is the envelope as envelope() returned it.           *)

NoReuse == [builder |-> NoCommand, made |-> 0, produced |-> NewEnvelope]

InitReuse ==
    /\ InitClient /\ NotifyIdle /\ PublishIdle /\ InitTopic
    /\ the_id = Absent
    /\ the_envelope = Absent
    /\ the_event = Absent
    /\ the_message = Absent
    /\ the_thing = Absent
    /\ failed = <<>>
    /\ the_command = NoReuse

(* An envelope that is given a Topic of its own.                           *)
CopyingTopic(b) == b

(* with_topic(self.topic) stores the Topic object of the builder in the    *)
(* envelope: what a later call writes into that object is in the envelope. *)
SharingTopic(b) ==
    IF b.env.taken THEN [b EXCEPT !.env.self.topic = TopicRef(b.self.topic)] ELSE b

ReuseCall(kind, name, args, result) ==
    /\ the_command.made < MaxReuse
    /\ the_command' =
          [the_command EXCEPT
              !.builder = SharingTopic(Called(@, kind, name, args, result)),
              !.made = @ + 1]
    /\ UNCHANGED commandFrame

ReuseCreate ==
    \E thing \in Things :
        ReuseCall("action", "create", <<thing>>,
                  Command_create(the_command.builder.self, thing))

ReuseModify ==
    \E payload \in Payloads :
        ReuseCall("action", "modify", <<payload>>,
                  Command_modify(the_command.builder.self, payload))

ReuseRetrieve ==
    \E args \in RetrieveArgs :
        ReuseCall("action", "retrieve", args,
                  Command_retrieve(the_command.builder.self, args))

ReuseDelete ==
    ReuseCall("action", "delete", <<>>, Command_delete(the_command.builder.self))

ReusePath ==
    \E this \in PathCalls :
        ReuseCall("path", this.name, this.args,
                  Command_path(the_command.builder.self, this))

ReuseLive ==
    ReuseCall("channel", "live", <<>>, Command_live(the_command.builder.self))

ReuseTwin ==
    ReuseCall("channel", "twin", <<>>, Command_twin(the_command.builder.self))

ReuseEnvelope ==
    /\ ~the_command.builder.env.taken
    /\ LET e == Signal_envelope(the_command.builder.self)
       IN  the_command' =
              [the_command EXCEPT
                  !.builder.returned = "envelope",
                  !.builder.last_call = "envelope",
                  !.builder.env = [taken |-> TRUE, self |-> e],
                  !.produced = e]
    /\ UNCHANGED commandFrame

NextReuse ==
    \/ ReuseCreate
    \/ ReuseModify
    \/ ReuseRetrieve
    \/ ReuseDelete
    \/ ReusePath
    \/ ReuseLive
    \/ ReuseTwin
    \/ ReuseEnvelope

SpecReuse == InitReuse /\ [][NextReuse]_vars

-----------------------------------------------------------------------------
(* SpecThing: a Thing constructed with or without a thing id, any sequence *)
(* of with_id, with_id_from, with_policy_id, with_policy_id_from,          *)
(* with_attribute and from_ditto_dict, then to_ditto_dict().               *)

ThingIdRefs == {NoIdRef, IdRef(SampleThingId), IdRef([namespace |-> <<"m">>, name |-> <<"e">>])}
ThingIdStrings == {<<"n", ":", "e">>, <<"m", ":", "e">>, <<"x">>, <<>>}
ThingDicts ==
    {a \cup b \cup c \cup d :
        a \in {{}} \cup {{<<"thingId", JStr(t)>>} : t \in {<<"m", ":", "e">>, <<"x">>}},
        b \in {{}, {<<"policyId", JStr(<<"p", ":", "q">>)>>}},
        c \in {{}, {<<"_revision", JInt(<<"1">>)>>}},
        d \in {{}, {<<"_namespace", JStr(<<"k">>)>>}}}

thingFrame ==
    <<clientVars, notifyVars, publishVars, topicVars, the_id, the_envelope, the_command,
      the_event, the_message, failed>>

(* A Thing as constructed: fixed is the namespace the constructor gave it  *)
(* or the last _namespace entry decoded into it.                           *)
NewThing(thing_id) ==
    [self |-> Thing__init__(thing_id), constructed_with |-> thing_id,
     fixed |-> Thing__init__(thing_id).namespace, id_calls |-> 0,
     raised |-> FALSE, encoded |-> NotEncoded]

InitThing ==
    /\ InitClient /\ NotifyIdle /\ PublishIdle /\ InitTopic
    /\ the_id = Absent
    /\ the_envelope = Absent
    /\ the_command = Absent
    /\ the_event = Absent
    /\ the_message = Absent
    /\ failed = <<>>
    /\ the_thing \in {NewThing(thing_id) : thing_id \in ThingIdRefs}

ThingWithId ==
    \E thing_id \in ThingIdRefs :
        /\ ~the_thing.encoded.taken
        /\ the_thing' = [the_thing EXCEPT !.self = Thing_with_id(@, thing_id),
                                          !.id_calls = 1, !.raised = FALSE]
        /\ UNCHANGED thingFrame

ThingWithIdFrom ==
    \E thing_id_str \in ThingIdStrings :
        /\ ~the_thing.encoded.taken
        /\ LET r == Thing_with_id_from(the_thing.self, thing_id_str)
           IN  the_thing' = [the_thing EXCEPT !.self = r.self, !.id_calls = 1,
                                             !.raised = r.raised]
        /\ UNCHANGED thingFrame

ThingWithPolicyId ==
    /\ ~the_thing.encoded.taken
    /\ the_thing' = [the_thing EXCEPT
                        !.self = Thing_with_policy_id(@, [namespace |-> <<"p">>,
                                                          name |-> <<"q">>]),
                        !.raised = FALSE]
    /\ UNCHANGED thingFrame

ThingWithPolicyIdFrom ==
    \E policy_id_str \in {<<"p", ":", "q">>, <<>>} :
        /\ ~the_thing.encoded.taken
        /\ the_thing' = [the_thing EXCEPT
                            !.self = Thing_with_policy_id_from(@, policy_id_str),
                            !.raised = FALSE]
        /\ UNCHANGED thingFrame

ThingWithAttribute ==
    /\ ~the_thing.encoded.taken
    /\ the_thing' = [the_thing EXCEPT !.self = Thing_with_attribute(@, "a"),
                                      !.raised = FALSE]
    /\ UNCHANGED thingFrame

ThingFromDittoDict ==
    \E ditto_dictionary \in ThingDicts :
        /\ ~the_thing.encoded.taken
        /\ LET r == Thing_from_ditto_dict(the_thing.self, ditto_dictionary)
           IN  the_thing' =
                  [the_thing EXCEPT
                      !.self = r.self,
                      !.raised = r.raised,
                      !.fixed = IF r.returned = "self"
                                   /\ "_namespace" \in Keys(ditto_dictionary)
                                THEN Tail(Get(ditto_dictionary, "_namespace"))
                                ELSE @]
        /\ UNCHANGED thingFrame

ThingToDittoDict ==
    /\ ~the_thing.encoded.taken
    /\ the_thing' = [the_thing EXCEPT
                        !.encoded = [taken |-> TRUE,
                                     dict |-> Thing_to_ditto_dict(the_thing.self)]]
    /\ UNCHANGED thingFrame

NextThing ==
    \/ ThingWithId
    \/ ThingWithIdFrom
    \/ ThingWithPolicyId
    \/ ThingWithPolicyIdFrom
    \/ ThingWithAttribute
    \/ ThingFromDittoDict
    \/ ThingToDittoDict

SpecThing == InitThing /\ [][NextThing]_vars

-----------------------------------------------------------------------------
(* SpecMessage: a Message built for a thing id on its default topic, any   *)
(* sequence of feature, inbox, outbox and with_payload, then envelope().   *)

Subjects == {<<"s">>, <<"t">>}

messageFrame ==
    <<clientVars, notifyVars, publishVars, topicVars, the_id, the_envelope, the_command,
      the_event, the_thing, failed>>

InitMessage ==
    /\ InitClient /\ NotifyIdle /\ PublishIdle /\ InitTopic
    /\ the_id = Absent
    /\ the_envelope = Absent
    /\ the_command = Absent
    /\ the_event = Absent
    /\ the_message = NoMessage
    /\ the_thing = Absent
    /\ failed = <<>>

MessageInbox ==
    \E subject \in Subjects :
        /\ ~the_message.env.taken
        /\ the_message' =
              [the_message EXCEPT
                  !.self = Message_inbox(@, subject),
                  !.box_call = [name |-> "inbox", args |-> <<subject>>],
                  !.feature_after_box = FALSE]
        /\ UNCHANGED messageFrame

MessageOutbox ==
    \E subject \in Subjects :
        /\ ~the_message.env.taken
        /\ the_message' =
              [the_message EXCEPT
                  !.self = Message_outbox(@, subject),
                  !.box_call = [name |-> "outbox", args |-> <<subject>>],
                  !.feature_after_box = FALSE]
        /\ UNCHANGED messageFrame

MessageWithPayload ==
    \E payload \in Payloads :
        /\ ~the_message.env.taken
        /\ the_message' =
              [the_message EXCEPT
                  !.self = Message_with_payload(@, payload),
                  !.payload_call = [name |-> "with_payload", args |-> <<payload>>]]
        /\ UNCHANGED messageFrame

MessageFeature ==
    \E feature_id \in FeatureIds :
        /\ ~the_message.env.taken
        /\ the_message' =
              [the_message EXCEPT
                  !.self = Message_feature(@, feature_id),
                  !.feature_call = [name |-> "feature", args |-> <<feature_id>>],
                  !.feature_after_box = (the_message.box_call.name # "none")]
        /\ UNCHANGED messageFrame

MessageEnvelope ==
    /\ ~the_message.env.taken
    /\ the_message' =
          [the_message EXCEPT
              !.env = [taken |-> TRUE, self |-> Message_envelope(the_message.self)]]
    /\ UNCHANGED messageFrame

NextMessage ==
    \/ MessageInbox
    \/ MessageOutbox
    \/ MessageWithPayload
    \/ MessageFeature
    \/ MessageEnvelope

SpecMessage == InitMessage /\ [][NextMessage]_vars

-----------------------------------------------------------------------------
(* Properties of the handler registry and the dispatcher.                  *)

InWrite(w) == pc[w] \in {"body", "unlock"}
InRead(d) == pc[d] \in {"check", "launch", "unlock_read"}

\* C1: while a subscribe or unsubscribe call is between lock_write and
\* unlock_write, the reader count is 0, no dispatch is between lock_read and
\* unlock_read, and no other call is inside its write section.
C1_WriterExcludesAll ==
    \A w \in Writers :
        InWrite(w) =>
            /\ readers = 0
            /\ \A d \in Dispatchers : ~InRead(d)
            /\ \A v \in Writers \ {w} : ~InWrite(v)

\* A call is inside its write section while the other caller and a
\* transport thread stand at the lock, the second message being delivered.
C1_Witness ==
    \E w \in Writers, v \in Writers, d \in Dispatchers :
        /\ w # v
        /\ pc[w] = "body"
        /\ pc[v] \in {"lock", "woken"}
        /\ pc[d] = "lock_read"
        /\ nmsgs = 2

\* C2: a message whose payload decodes while n >= 1 handlers are registered
\* gets one thread per entry of the handler list, in list order, none
\* skipped or repeated, each with the request id extracted from the topic
\* and the decoded envelope; the start of the next thread never waits for a
\* thread started before.
C2_OneThreadPerHandler ==
    \A d \in Dispatchers :
        (InRead(d) /\ disp[d].decoded) =>
            LET started == disp[d].launched
            IN  /\ Len(handlers) >= 1
                /\ Len(started) <= Len(handlers)
                /\ \A j \in 1..Len(started) :
                      /\ started[j].target = handlers[j]
                      /\ started[j].args =
                            <<_extract_hono_req_id(disp[d].topic),
                              [decoded_from |-> disp[d].payload]>>
                /\ pc[d] = "unlock_read" => Len(started) = Len(handlers)
                /\ pc[d] = "launch" => ENABLED Launch(d)

\* Both handlers have been started for a message and both still run.
C2_Witness ==
    \E d \in Dispatchers :
        /\ pc[d] = "unlock_read"
        /\ Len(disp[d].launched) = 2
        /\ disp[d].launched[1].target # disp[d].launched[2].target
        /\ Len(SelectSeq(units, LAMBDA u : u.msg = disp[d].id)) = 2

\* C3: once the threads of a message are started the dispatcher can release
\* read access whatever threads are still running, and running handler
\* threads hold no read access: with no dispatch in progress the reader
\* count is 0, so a writer is let in.
C3_ReleaseDoesNotAwaitHandlers ==
    /\ \A d \in Dispatchers :
          (pc[d] = "unlock_read" /\ mutex = Free) => ENABLED UnlockRead(d)
    /\ (\A d \in Dispatchers : ~InRead(d)) => readers = 0
    /\ \A w \in Writers :
          (pc[w] \in {"lock", "woken"} /\ mutex = Free
             /\ \A d \in Dispatchers : ~InRead(d)) => ENABLED LockWrite(w)

\* A call has changed the handler list inside its write section, and a
\* second message has been dispatched, while a thread started for the
\* first message still runs.
C3_Witness ==
    \E w \in Writers :
        /\ pc[w] = "unlock"
        /\ handlers # call[w].before
        /\ \E j, k \in 1..Len(units) : units[j].msg = 1 /\ units[k].msg = 2

\* C4: when unsubscribe is called with no handler arguments, the handler
\* list is empty at the end of the call.
C4_UnsubscribeNoArgsClears ==
    \A w \in Writers :
        (pc[w] = "unlock" /\ call[w].op = "unsubscribe" /\ call[w].args = <<>>)
            => handlers = <<>>

RECURSIVE IsSubsequence(_, _)
IsSubsequence(s, t) ==
    IF s = <<>> THEN TRUE
    ELSE IF t = <<>> THEN FALSE
    ELSE IF Head(s) = Head(t) THEN IsSubsequence(Tail(s), Tail(t))
    ELSE IsSubsequence(s, Tail(t))

(* The first argument position that asks for more removals of its handler  *)
(* than the list held occurrences of it; Len(args) + 1 when there is none. *)
FirstUnregistered(args, list) ==
    LET bad == {k \in 1..Len(args) :
                  Count(args[k], SubSeq(args, 1, k)) > Count(args[k], list)}
    IN  IF bad = {} THEN Len(args) + 1
        ELSE CHOOSE k \in bad : \A j \in bad : k <= j

\* C5: at the end of unsubscribe(h1, ..., hk) the arguments before the first
\* unregistered one have each taken one occurrence out of the list, the
\* other entries are left in their order, the call has failed exactly when
\* there was an unregistered argument, the arguments after it removed
\* nothing, and a caller that is not inside a call does not hold the lock.
C5_UnsubscribeRemovesUntilFailure ==
    \A w \in Writers :
        /\ mutex = w => InWrite(w)
        /\ (pc[w] = "unlock" /\ call[w].op = "unsubscribe") =>
              LET args == call[w].args
                  before == call[w].before
                  removed == FirstUnregistered(args, before) - 1
              IN  /\ call[w].i = removed
                  /\ call[w].err <=> removed < Len(args)
                  /\ \A h \in Handlers :
                        Count(h, handlers) =
                            Count(h, before) - Count(h, SubSeq(args, 1, removed))
                  /\ IsSubsequence(handlers, before)

\* unsubscribe(h1, h2, h1) on the list h1, h1: the first h1 is removed, h2
\* is not registered, the last argument is still registered.
C5_Witness ==
    \E w \in Writers :
        /\ pc[w] = "unlock"
        /\ call[w].op = "unsubscribe"
        /\ call[w].err
        /\ call[w].i = 1
        /\ Len(call[w].args) = 3
        /\ call[w].args[3] \in Range(handlers)
        /\ Len(call[w].before) = 2

\* C6: a lifecycle notification waits at most 60 time units for the
\* callback; when the callback was still running at the end of the wait the
\* entry logged is the timed-out one, and when it had ended it is the
\* success one.
C6_TimeoutIsLogged ==
    (notif.pc = "done" /\ Callback(notif.kind) # NoneV) =>
        /\ notif.waited <= JoinTimeout
        /\ nlog # <<>>
        /\ nlog[Len(nlog)].kind = notif.kind
        /\ notif.alive => nlog[Len(nlog)].text = "timed out waiting"
        /\ ~notif.alive => nlog[Len(nlog)].text = "successfully notified"

\* C7: when json.dumps or the transport publish fails inside send or reply,
\* the error entry is logged before the error is raised, the error raised
\* is the one that occurred, nothing was published by the failed call, and
\* no step of send or reply changes the handler list or the lock.
C7_PublishFailureLoggedThenRaised ==
    /\ [](pub.pc \in {"raise", "raised"} =>
            /\ plog # <<>>
            /\ plog[Len(plog)].level = LOG_LEVEL_ERROR
            /\ plog[Len(plog)].send = nsends
            /\ plog[Len(plog)].err = pub.err
            /\ pub.err # "none")
    /\ [](pub.pc = "raised" => pub.raised = pub.err)
    /\ [](Len(published) + Len(plog) <= nsends)
    /\ [][pub' # pub => UNCHANGED <<handlers, mutex, readers>>]_vars

\* A reply has failed in the transport while the caller thread held the
\* write lock with a handler registered.
C7_Witness ==
    /\ pub.pc = "raised"
    /\ pub.raised = "TransportError"
    /\ pub.topic = ResPrefix \o <<"4","2","/","2","0","4">>
    /\ mutex = "w1"
    /\ handlers # <<>>

-----------------------------------------------------------------------------
(* Properties of the request id and of Topic.                              *)

NoSlash(s) == \A i \in 1..Len(s) : s[i] # "/"

(* The lengths n for which hono_topic is command///req/<id>/<subject> with *)
(* an id of n characters: id and subject without a slash, subject not      *)
(* empty.                                                                  *)
IdLengths(hono_topic) ==
    {n \in 0..Len(hono_topic) :
        LET a == Len(ReqPrefix)
        IN  /\ Len(hono_topic) >= a + n + 2
            /\ SubSeq(hono_topic, 1, a) = ReqPrefix
            /\ NoSlash(SubSeq(hono_topic, a + 1, a + n))
            /\ hono_topic[a + n + 1] = "/"
            /\ NoSlash(SubSeq(hono_topic, a + n + 2, Len(hono_topic)))}

ExpectedRequestId(hono_topic) ==
    IF IdLengths(hono_topic) = {} THEN <<>>
    ELSE LET n == CHOOSE n \in IdLengths(hono_topic) : TRUE
         IN  SubSeq(hono_topic, Len(ReqPrefix) + 1, Len(ReqPrefix) + n)

\* C8: the request id extracted from an inbound topic is the <id> of
\* command///req/<id>/<subject> when the topic has that form and the empty
\* string otherwise, no error is raised, and the message is started on
\* every handler with that id, also when the id is empty.
C8_RequestIdExtraction ==
    \A d \in Dispatchers :
        pc[d] \in {"launch", "unlock_read"} =>
            /\ Cardinality(IdLengths(disp[d].topic)) <= 1
            /\ ~disp[d].err
            /\ handlers # <<>> =>
                  /\ disp[d].decoded
                  /\ disp[d].req = ExpectedRequestId(disp[d].topic)
                  /\ \A j \in 1..Len(disp[d].launched) :
                        disp[d].launched[j].args[1] =
                            ExpectedRequestId(disp[d].topic)
                  /\ pc[d] = "unlock_read" =>
                        Len(disp[d].launched) = Len(handlers)

\* The one-way topic command///req//a has been started on two handlers with
\* the empty request id.
C8_Witness ==
    /\ pc["d1"] = "unlock_read"
    /\ disp["d1"].topic = ReqPrefix \o <<"/", "a">>
    /\ Len(disp["d1"].launched) = 2
    /\ disp["d1"].launched[2].args[1] = <<>>

ValidThingsTopic(t) ==
    /\ t.group = GROUP_THINGS
    /\ t.namespace # NoneV /\ NoSlash(t.namespace)
    /\ t.entity_id # NoneV /\ NoSlash(t.entity_id)
    /\ t.channel \in {CHANNEL_TWIN, CHANNEL_LIVE}
    /\ t.criterion \in Criteria
    /\ t.action = NoneV \/ t.action # <<>>

\* C9: for a things Topic with namespace and entity_id free of slashes, a
\* channel, a criterion and an action that is absent or not empty, parsing
\* its string into a fresh Topic succeeds and gives the same six fields,
\* and the string of the parsed Topic is the string that was parsed.
C9_TopicRoundTrip ==
    ValidThingsTopic(topic) =>
        /\ parsed.called => (~parsed.raised /\ parsed.self = topic)
        /\ reformatted # NoneV => reformatted = formatted

\* A valid things Topic whose action holds a slash has been formatted,
\* parsed and formatted again.
C9_Witness ==
    /\ ValidThingsTopic(topic)
    /\ topic.action = <<"a", "/", "b">>
    /\ topic.namespace = <<>>
    /\ reformatted # NoneV

Present(v) == IF v = NoneV \/ v = <<>> THEN <<>> ELSE <<v>>

\* C10: the string of a Topic whose group is policies is
\* namespace/entity_id/policies, then the criterion when present, then the
\* action when present; the channel is not one of its segments.
C10_PoliciesTopicHasNoChannel ==
    (topic.group = GROUP_POLICIES /\ formatted # NoneV) =>
        /\ formatted =
              JoinSlash(<<Str(topic.namespace), Str(topic.entity_id), GROUP_POLICIES>>
                          \o Present(topic.criterion) \o Present(topic.action))
        /\ LET others == SplitMax(Str(topic.namespace), MaxName)
                            \o SplitMax(Str(topic.entity_id), 2)
                            \o Present(topic.criterion)
                            \o (IF topic.action = NoneV THEN <<>>
                                ELSE SplitMax(topic.action, 3))
           IN  (topic.channel # NoneV /\ topic.channel \notin Range(others)) =>
                   topic.channel \notin
                       Range(SplitMax(formatted, Len(formatted)))

\* A policies Topic given a channel, a criterion and an action has been
\* formatted.
C10_Witness ==
    /\ topic.group = GROUP_POLICIES
    /\ topic.channel = CHANNEL_TWIN
    /\ topic.criterion = CRITERION_COMMANDS
    /\ topic.action = ACTION_MODIFY
    /\ topic.namespace = <<"n">>
    /\ formatted # NoneV

-----------------------------------------------------------------------------
(* Properties of Topic.from_string on any string.                          *)

(* The position of the k-th slash of s: 0 for k = 0 and Len(s) + 1 when s  *)
(* has fewer than k slashes.                                               *)
SlashAt(s, k) ==
    LET at == {i \in 1..Len(s) :
                 s[i] = "/" /\ Cardinality({j \in 1..i : s[j] = "/"}) = k}
    IN  IF k = 0 THEN 0
        ELSE IF at = {} THEN Len(s) + 1
        ELSE CHOOSE i \in at : TRUE

NumSegments(s) == Cardinality({i \in 1..Len(s) : s[i] = "/"}) + 1

(* The k-th element of s split at its first five slashes: the text between *)
(* two slashes for k <= 5, and everything after the fifth slash for k = 6. *)
Element(s, k) ==
    IF k <= 5 THEN SubSeq(s, SlashAt(s, k - 1) + 1, SlashAt(s, k) - 1)
    ELSE SubSeq(s, SlashAt(s, 5) + 1, Len(s))

NumElements(s) == IF NumSegments(s) < 6 THEN NumSegments(s) ELSE 6

\* C11: a string with enough segments parses into a fresh Topic whose
\* namespace, entity_id and group are elements 1 to 3 of the split at the
\* first five slashes; for the group things the channel is element 4 and
\* criterion and action are elements 5 and 6; for any other group the
\* channel stays absent and criterion and action are elements 4 and 5; the
\* action stays absent when the string has no such element.
C11_ParseAssignsSegments ==
    parsed.called =>
        LET n == NumElements(formatted)
            things == n >= 3 /\ Element(formatted, 3) = GROUP_THINGS
            at == IF things THEN 5 ELSE 4
            self == parsed.self
        IN  n >= at =>
              /\ ~parsed.raised
              /\ self.namespace = Element(formatted, 1)
              /\ self.entity_id = Element(formatted, 2)
              /\ self.group = Element(formatted, 3)
              /\ self.channel =
                    (IF things THEN Element(formatted, 4) ELSE NoneV)
              /\ self.criterion = Element(formatted, at)
              /\ self.action =
                    (IF n > at THEN Element(formatted, at + 1) ELSE NoneV)

\* x/x/x/x/x/x/x has been parsed: no channel, the criterion and the action
\* are its fourth and fifth segments.
C11_Witness ==
    /\ formatted = JoinSlash([k \in 1..7 |-> <<"x">>])
    /\ parsed.called
    /\ parsed.self.channel = NoneV
    /\ parsed.self.action = <<"x">>

\* C12: from_string raises for every string of fewer than 4 segments and
\* for every string whose group segment is absent or empty.
C12_ParseFailsOnMalformed ==
    (/\ parsed.called
     /\ \/ NumSegments(formatted) < 4
        \/ Element(formatted, 3) = <<>>) => parsed.raised

-----------------------------------------------------------------------------
(* Properties of NamespacedID.                                             *)

HasColon(s) == \E i \in 1..Len(s) : s[i] = ":"

(* s is namespace, a colon, name, and namespace holds no colon.            *)
SplitsAtFirstColon(s, namespace, name) ==
    /\ s = namespace \o <<":">> \o name
    /\ ~HasColon(namespace)

\* C13: NamespacedID().from_string raises for every string without a colon,
\* the empty string included, and never returns an identifier whose fields
\* were left at None; for a string with a colon the namespace is the text
\* before the first colon and the name everything after it.
C13_IdFromStringFailsWithoutColon ==
    the_id.called =>
        IF HasColon(the_id.input)
        THEN /\ ~the_id.raised
             /\ the_id.returned = the_id.self
             /\ SplitsAtFirstColon(the_id.input, the_id.self.namespace,
                                   the_id.self.name)
        ELSE /\ the_id.raised
             /\ the_id.returned = NoneV

-----------------------------------------------------------------------------
(* Properties of Envelope.                                                 *)

IsDict(dict) ==
    \A item \in dict : \A other \in dict : item[1] = other[1] => item = other

\* C14: the keys of to_ditto_dict() are topic, headers when the headers
\* field is not None, and each of path, value, fields, extra, status,
\* revision, timestamp whose value is not None; a value that is 0, false,
\* an empty string or an empty mapping is kept as it is.
C14_WireFormKeys ==
    the_envelope.ditto_dict.taken =>
        LET self == the_envelope.self
            dict == the_envelope.ditto_dict.dict
        IN  /\ IsDict(dict)
            /\ Keys(dict) =
                  {"topic"}
                  \cup (IF self.headers.is_none THEN {} ELSE {"headers"})
                  \cup {k \in ScalarKeys : self[k] # NoneV}
            /\ \A k \in Keys(dict) \cap ScalarKeys : Get(dict, k) = self[k]

\* An Envelope without topic, with empty headers, value 0, an empty path
\* and an empty mapping as extra has been encoded.
C14_Witness ==
    /\ the_envelope.ditto_dict.taken
    /\ the_envelope.self.topic = NoTopic
    /\ the_envelope.self.headers = NewHeaders
    /\ the_envelope.self.value = JInt(<<"0">>)
    /\ the_envelope.self.path = JStr(<<>>)
    /\ the_envelope.self.extra = JEmptyDict
    /\ the_envelope.self.status = NoneV

\* C15: from_ditto_dict on a mapping without a topic key returns the
\* mapping, raises nothing and leaves all nine fields of the Envelope as
\* they were, also when the mapping has other envelope keys.
C15_DecodeWithoutTopicIsPassThrough ==
    (the_envelope.called /\ "topic" \notin Keys(the_envelope.ditto_dictionary)) =>
        /\ the_envelope.returned = "input"
        /\ ~the_envelope.raised
        /\ the_envelope.self = the_envelope.before

\* A mapping with path, value and status but no topic has been handed to
\* an Envelope that holds another path, value and status.
C15_Witness ==
    /\ the_envelope.called
    /\ Keys(the_envelope.ditto_dictionary) = {"path", "value", "status"}
    /\ the_envelope.before = HeldEnvelope
    /\ Get(the_envelope.ditto_dictionary, "path") # the_envelope.self.path

(* A topic string the protocol allows: a things topic with channel,        *)
(* criterion and an action that is absent or not empty, or a policies      *)
(* topic with criterion and such an action.                                *)
WellFormedTopicString(s) ==
    LET n == NumSegments(s)
    IN  \/ /\ n \in {5, 6}
           /\ Element(s, 3) = GROUP_THINGS
           /\ Element(s, 4) \in {CHANNEL_TWIN, CHANNEL_LIVE}
           /\ Element(s, 5) \in Criteria
           /\ n = 6 => Element(s, 6) # <<>>
        \/ /\ n \in {4, 5}
           /\ Element(s, 3) = GROUP_POLICIES
           /\ Element(s, 4) \in Criteria
           /\ n = 5 => Element(s, 5) # <<>>

(* A mapping of envelope keys only, with a well-formed topic string and no *)
(* null value.                                                             *)
WireForm(d) ==
    /\ Keys(d) \subseteq ditto_json_keys_all
    /\ "topic" \in Keys(d)
    /\ WellFormedTopicString(Tail(Get(d, "topic")))
    /\ \A k \in Keys(d) \cap ScalarKeys : Get(d, k) # NoneV
    /\ "headers" \in Keys(d) => \A item \in Get(d, "headers") : item[2] # NoneV

\* C16 as stated: decoding a wire-form mapping into a fresh Envelope and
\* encoding it again gives an equal mapping, with or without a headers
\* entry.
C16_WireRoundTrip ==
    (/\ the_envelope.called
     /\ the_envelope.before = NewEnvelope
     /\ WireForm(the_envelope.ditto_dictionary)
     /\ the_envelope.ditto_dict.taken)
        => the_envelope.ditto_dict.dict = the_envelope.ditto_dictionary

\* C16 amended: decoding a wire-form mapping into a fresh Envelope succeeds
\* and encoding it again gives an equal mapping when the mapping has a
\* headers entry, and the mapping with an empty headers entry added when
\* it has none.
C16_WireRoundTripWithHeaders ==
    (/\ the_envelope.called
     /\ the_envelope.before = NewEnvelope
     /\ WireForm(the_envelope.ditto_dictionary))
        => /\ ~the_envelope.raised
           /\ the_envelope.returned = "self"
           /\ the_envelope.ditto_dict.taken =>
                 the_envelope.ditto_dict.dict =
                    IF "headers" \in Keys(the_envelope.ditto_dictionary)
                    THEN the_envelope.ditto_dictionary
                    ELSE the_envelope.ditto_dictionary \cup {<<"headers", {}>>}

\* A mapping with all nine keys has been decoded into a fresh Envelope and
\* encoded again.
C16_Witness ==
    /\ the_envelope.called
    /\ the_envelope.before = NewEnvelope
    /\ WireForm(the_envelope.ditto_dictionary)
    /\ Keys(the_envelope.ditto_dictionary) = ditto_json_keys_all
    /\ Get(the_envelope.ditto_dictionary, "headers") # {}
    /\ the_envelope.ditto_dict.taken

-----------------------------------------------------------------------------
(* Properties of the Command and Event builders.                           *)

(* A Command on which nothing but the given path and channel was set.      *)
CommandAt(path, channel) ==
    [Command__init__(SampleThingId) EXCEPT !.path = path, !.topic.channel = channel]

(* The builder after one action call made on the builder b.                *)
ActionAlone(b, this) ==
    IF this.name = "create" THEN Command_create(b, this.args[1]).self
    ELSE IF this.name = "modify" THEN Command_modify(b, this.args[1]).self
    ELSE IF this.name = "retrieve" THEN Command_retrieve(b, this.args).self
    ELSE IF this.name = "delete" THEN Command_delete(b).self
    ELSE b

\* C17: the envelope taken from a Command after a sequence of action calls
\* has the topic action and the value that the last action call alone gives
\* on a Command with the same path and channel; nothing of an earlier
\* action call is carried into it.
C17_LastActionAlone ==
    (the_command.env.taken /\ the_command.action_call.name # "none") =>
        LET alone == Signal_envelope(
                        ActionAlone(CommandAt(the_command.self.path,
                                              the_command.self.topic.channel),
                                    the_command.action_call))
            taken == the_command.env.self
        IN  /\ taken.topic.obj.action = alone.topic.obj.action
            /\ taken.value = alone.value

(* The segments of the pointer a path-targeting call asks for.             *)
PointerSegments(this) ==
    LET n == this.name
        a == this.args
    IN  IF n = "policy_id" THEN <<<<"p", "o", "l", "i", "c", "y", "I", "d">>>>
        ELSE IF n = "definition" THEN <<<<"d", "e", "f", "i", "n", "i", "t", "i", "o", "n">>>>
        ELSE IF n = "attributes" THEN <<<<"a", "t", "t", "r", "i", "b", "u", "t", "e", "s">>>>
        ELSE IF n = "attribute" THEN <<<<"a", "t", "t", "r", "i", "b", "u", "t", "e", "s">>, a[1]>>
        ELSE IF n = "features" THEN <<<<"f", "e", "a", "t", "u", "r", "e", "s">>>>
        ELSE IF n = "feature" THEN <<<<"f", "e", "a", "t", "u", "r", "e", "s">>, a[1]>>
        ELSE IF n = "feature_definition" THEN <<<<"f", "e", "a", "t", "u", "r", "e", "s">>, a[1], <<"d", "e", "f", "i", "n", "i", "t", "i", "o", "n">>>>
        ELSE IF n = "feature_properties" THEN <<<<"f", "e", "a", "t", "u", "r", "e", "s">>, a[1], <<"p", "r", "o", "p", "e", "r", "t", "i", "e", "s">>>>
        ELSE IF n = "feature_property" THEN <<<<"f", "e", "a", "t", "u", "r", "e", "s">>, a[1], <<"p", "r", "o", "p", "e", "r", "t", "i", "e", "s">>, a[2]>>
        ELSE IF n = "feature_desired_properties" THEN <<<<"f", "e", "a", "t", "u", "r", "e", "s">>, a[1], <<"d", "e", "s", "i", "r", "e", "d", "P", "r", "o", "p", "e", "r", "t", "i", "e", "s">>>>
        ELSE IF n = "feature_desired_property" THEN <<<<"f", "e", "a", "t", "u", "r", "e", "s">>, a[1], <<"d", "e", "s", "i", "r", "e", "d", "P", "r", "o", "p", "e", "r", "t", "i", "e", "s">>, a[2]>>
        ELSE <<>>

Pointer(this) ==
    IF PointerSegments(this) = <<>> THEN <<"/">>
    ELSE <<"/">> \o JoinSlash(PointerSegments(this))

(* The value an envelope carries for a payload: what to_ditto_dict gives   *)
(* when the payload has that method, the payload otherwise.                *)
WireValue(payload) ==
    IF payload = NoneV THEN NoneV
    ELSE IF payload[1] = "obj" THEN <<"dict">> \o Tail(payload)
    ELSE payload

\* C18 as stated: the path of the envelope taken from a Command is the
\* pointer of the last path-targeting call, or / when there was none,
\* whatever action calls were made before or after that path call.
C18_LastPathCall ==
    the_command.env.taken =>
        the_command.env.self.path = JStr(Pointer(the_command.path_call))

\* C18 amended: the path of the envelope taken from a Command is the
\* pointer of the last path-targeting call made after the last create call,
\* or / when there was none, whatever modify, retrieve and delete calls
\* were made; and the value after a last modify(v) is v, in the form
\* to_ditto_dict gives when v has that method.
C18_LastPathCallSinceCreate ==
    the_command.env.taken =>
        /\ the_command.env.self.path =
              JStr(IF the_command.created_since_path THEN <<"/">>
                   ELSE Pointer(the_command.path_call))
        /\ the_command.action_call.name = "modify" =>
              the_command.env.self.value = WireValue(the_command.action_call.args[1])

\* feature_property(f, p), then retrieve and modify(42): the envelope has
\* the path /features/f/properties/p and the value 42.
C18_Witness ==
    /\ the_command.env.taken
    /\ the_command.path_call =
          [name |-> "feature_property", args |-> <<<<"f">>, <<"p">>>>]
    /\ the_command.action_call = [name |-> "modify", args |-> <<JInt(<<"4", "2">>)>>]
    /\ the_command.env.self.path = JStr(<<"/", "f", "e", "a", "t", "u", "r", "e", "s", "/", "f", "/", "p", "r", "o", "p", "e", "r", "t", "i", "e", "s", "/", "p">>)
    /\ the_command.env.self.value = JInt(<<"4", "2">>)
    /\ ~the_command.created_since_path

ChannelOf(name) == IF name = "live" THEN CHANNEL_LIVE ELSE CHANNEL_TWIN

\* C19: on a Command and on an Event, live() and twin() set the channel of
\* the topic and return the builder itself, and the topic of the envelope
\* has the channel of the last live() or twin() call.
C19_ChannelCallsChain ==
    \A b \in {the_command, the_event} \ {Absent} :
        /\ b.last_call \in {"live", "twin"} =>
              /\ b.returned = "self"
              /\ b.self.topic.channel = ChannelOf(b.last_call)
        /\ (b.env.taken /\ b.channel_call.name # "none") =>
              b.env.self.topic.obj.channel = ChannelOf(b.channel_call.name)

-----------------------------------------------------------------------------
(* Properties of the Message builder.                                      *)

MessageTopicIs(t, subject) ==
    /\ ~t.is_none
    /\ t.obj = [namespace |-> SampleThingId.namespace,
                entity_id |-> SampleThingId.name,
                group |-> GROUP_THINGS,
                channel |-> CHANNEL_LIVE,
                criterion |-> CRITERION_MESSAGES,
                action |-> subject]

(* A + / + M + /messages/ + S for the last feature call and the last inbox *)
(* or outbox call.                                                         *)
MessagePath(feature_call, box_call) ==
    LET A == IF feature_call.name = "none" THEN <<>>
             ELSE <<"/", "f", "e", "a", "t", "u", "r", "e", "s", "/">> \o feature_call.args[1]
    IN  A \o <<"/">> \o (IF box_call.name = "inbox" THEN <<"i", "n", "b", "o", "x">> ELSE <<"o", "u", "t", "b", "o", "x">>)
          \o <<"/", "m", "e", "s", "s", "a", "g", "e", "s", "/">> \o box_call.args[1]

LastPayload(payload_call) ==
    IF payload_call.name = "none" THEN NoneV ELSE payload_call.args[1]

\* C20 as stated: after feature, inbox, outbox and with_payload calls with
\* at least one inbox or outbox call, the envelope of a Message has the
\* topic things/live/messages with the last subject as action, the path
\* A/M/messages/S of the last feature call and the last inbox or outbox
\* call, and the last payload itself as value.
C20_MessageEnvelope ==
    (the_message.env.taken /\ the_message.box_call.name # "none") =>
        LET e == the_message.env.self
        IN  /\ MessageTopicIs(e.topic, the_message.box_call.args[1])
            /\ e.path = JStr(MessagePath(the_message.feature_call, the_message.box_call))
            /\ e.value = LastPayload(the_message.payload_call)

\* C20 amended: the same topic and path, and as value the last payload in
\* the form to_ditto_dict gives when the payload has that method, the
\* payload itself otherwise; the envelope is the same whether feature was
\* called before or after the last inbox or outbox call.
C20_MessageEnvelopeWireValue ==
    (the_message.env.taken /\ the_message.box_call.name # "none") =>
        LET e == the_message.env.self
        IN  /\ MessageTopicIs(e.topic, the_message.box_call.args[1])
            /\ e.path = JStr(MessagePath(the_message.feature_call, the_message.box_call))
            /\ e.value = WireValue(LastPayload(the_message.payload_call))

\* outbox(t), then feature(g) and with_payload(42): the envelope has the
\* action t and the path /features/g/outbox/messages/t.
C20_Witness ==
    /\ the_message.env.taken
    /\ the_message.feature_after_box
    /\ the_message.box_call = [name |-> "outbox", args |-> <<<<"t">>>>]
    /\ the_message.env.self.path = JStr(<<"/", "f", "e", "a", "t", "u", "r", "e", "s", "/", "g", "/", "o", "u", "t", "b", "o", "x", "/", "m", "e", "s", "s", "a", "g", "e", "s", "/", "t">>)
    /\ the_message.env.self.value = JInt(<<"4", "2">>)
    /\ the_message.env.self.topic.obj.action = <<"t">>

-----------------------------------------------------------------------------
(* Properties of a builder that is used again after envelope().            *)

\* C21: the envelope returned by envelope() holds the Topic object of the
\* builder: after any later action, path or channel call on the builder the
\* topic of the envelope, and so its encoded topic string, is the topic of
\* the builder, while the path, value and headers of the envelope are those
\* envelope() gave it.
C21_EnvelopeSharesTopic ==
    the_command.builder.env.taken =>
        LET e == the_command.builder.env.self
            b == the_command.builder.self
        IN  /\ ~e.topic.is_none
            /\ e.topic.obj = b.topic
            /\ (<<"topic", JStr(Topic__str__(b.topic))>>) \in Envelope_to_ditto_dict(e)
            /\ e.path = the_command.produced.path
            /\ e.value = the_command.produced.value
            /\ e.headers = the_command.produced.headers

\* The envelope was taken after modify(42); delete() was called on the
\* builder afterwards: the envelope now has the action delete, the builder
\* has no other path or payload, and the envelope keeps the value 42.
C21_Witness ==
    /\ the_command.builder.env.taken
    /\ the_command.produced.topic.obj.action = ACTION_MODIFY
    /\ the_command.produced.value = JInt(<<"4", "2">>)
    /\ the_command.builder.last_call = "delete"
    /\ the_command.builder.env.self.topic.obj.action = ACTION_DELETE
    /\ the_command.builder.env.self.value = JInt(<<"4", "2">>)

-----------------------------------------------------------------------------
(* Properties of Thing.                                                    *)

\* C22: the namespace of a Thing is the one fixed by the constructor, or
\* the last _namespace entry decoded into it, whatever with_id, with_id_from
\* and other with_ calls were made; a Thing constructed without a thing id
\* and given one later is encoded with its thingId and without a _namespace
\* entry unless one was decoded into it.
C22_NamespaceFixedAtConstruction ==
    /\ the_thing.self.namespace = the_thing.fixed
    /\ (the_thing.encoded.taken /\ the_thing.constructed_with.is_none
          /\ the_thing.fixed = NoneV) =>
            "_namespace" \notin Keys(the_thing.encoded.dict)
    /\ (the_thing.encoded.taken /\ ~the_thing.self.thing_id.is_none) =>
            "thingId" \in Keys(the_thing.encoded.dict)

\* A Thing constructed empty was given the id m:e by with_id_from and is
\* encoded with thingId m:e and no _namespace entry.
C22_Witness ==
    /\ the_thing.encoded.taken
    /\ the_thing.constructed_with.is_none
    /\ the_thing.id_calls = 1
    /\ <<"thingId", JStr(<<"m", ":", "e">>)>> \in the_thing.encoded.dict
    /\ "_namespace" \notin Keys(the_thing.encoded.dict)

-----------------------------------------------------------------------------
(* Starvation of writers.                                                  *)

AtLockWrite(w) == pc[w] \in {"lock", "waiting", "woken"}

(* The states of a round of overlapping dispatches: the caller w1 waits in *)
(* lock_write, the dispatch of thread a holds read access, and thread b is *)
(* at the given position of its own dispatch.                              *)
Overlap(a, b, pos_a, pos_b, n) ==
    /\ pc["w1"] = "waiting"
    /\ pc["w2"] = "idle"
    /\ pc[a] = pos_a
    /\ pc[b] = pos_b
    /\ readers = n
    /\ mutex = Free
    /\ handlers = <<>>
    /\ units = <<>>

(* A step in which the transport hands a message to _on_paho_message.     *)
Arrives == \E d \in Dispatchers : pc[d] = "idle" /\ pc'[d] = "lock_read"

\* C23: writers can starve, and only under messages that keep arriving.
\* From every state of a round of overlapping dispatches the next state of
\* the round can be taken, the round ends where it began with the two
\* transport threads exchanged, the reader count is at least 1 throughout
\* and the waiting caller has no step to take: repeated for ever this is an
\* execution in which both transport threads keep taking steps and the
\* caller never obtains write access. When from some point on no message
\* arrives, every caller at lock_write eventually obtains write access.
C23_WritersCanStarve ==
    /\ [](\A a \in Dispatchers : \A b \in Dispatchers \ {a} :
            /\ Overlap(a, b, "check", "idle", 1) =>
                  /\ ENABLED (Redeliver(b) /\ Overlap(a, b, "check", "lock_read", 1)')
                  /\ ~ENABLED WriterStep("w1") /\ ~ENABLED WriterStep("w2")
            /\ Overlap(a, b, "check", "lock_read", 1) =>
                  /\ ENABLED (LockRead(b) /\ Overlap(a, b, "check", "check", 2)')
                  /\ ~ENABLED WriterStep("w1") /\ ~ENABLED WriterStep("w2")
            /\ Overlap(a, b, "check", "check", 2) =>
                  /\ ENABLED (Decode(a) /\ Overlap(a, b, "unlock_read", "check", 2)')
                  /\ ~ENABLED WriterStep("w1") /\ ~ENABLED WriterStep("w2")
            /\ Overlap(a, b, "unlock_read", "check", 2) =>
                  /\ ENABLED (UnlockRead(a) /\ Overlap(b, a, "check", "idle", 1)')
                  /\ ~ENABLED WriterStep("w1") /\ ~ENABLED WriterStep("w2"))
    /\ \A w \in Writers :
          (<>[][~Arrives]_vars)
              => (AtLockWrite(w) ~> InWrite(w))

\* The caller w1 waits in lock_write while the dispatch of d1 holds read
\* access and the next message is about to be handed to d2.
C23_Witness == Overlap("d1", "d2", "check", "idle", 1)

-----------------------------------------------------------------------------
(* Order of handler threads across messages, one transport thread.         *)

UnitsOf(m) == SelectSeq(units, LAMBDA u : u.msg = m)

\* C24: handler threads start in delivery order and end in any order. A
\* step that starts a handler thread starts it for the message of the
\* callback in progress, which is the latest message delivered; the callback
\* leaves its loop only after starting a thread for every handler; the next
\* message is delivered only after the callback has returned; and every
\* running handler thread, of whichever message, may be the next to end.
C24_StartOrderFollowsDelivery ==
    [][/\ Len(units') > Len(units) =>
            /\ units' = Append(units, units'[Len(units')])
            /\ units'[Len(units')].msg = nmsgs
            /\ disp["d1"].id = nmsgs
            /\ pc["d1"] = "launch"
            /\ \A k \in 1..Len(units) : units[k].msg <= nmsgs
       /\ (pc["d1"] = "launch" /\ pc'["d1"] # "launch") =>
            /\ pc'["d1"] = "unlock_read"
            /\ Len(disp["d1"].launched) = Len(handlers)
            /\ units' = units
       /\ nmsgs' # nmsgs => (nmsgs' = nmsgs + 1 /\ pc["d1"] = "idle")
       /\ \A k \in 1..Len(units) : ENABLED UnitEnds(k)]_vars

\* A handler thread of the first message is still running when one started
\* for the second message has already ended.
C24_Witness ==
    /\ nmsgs = 2
    /\ disp["d1"].id = 2
    /\ Len(UnitsOf(1)) > 0
    /\ Len(UnitsOf(2)) < Len(disp["d1"].launched)

-----------------------------------------------------------------------------
(* Handlers that raise.                                                    *)

Targets(launched) == [i \in 1..Len(launched) |-> launched[i].target]

\* C25: a handler that raises affects only its own thread. The step in which
\* a handler thread ends by raising removes that thread alone and leaves the
\* handler list, the lock, the callback in progress and every other thread
\* as they were; whatever has failed, the callback leaves its loop only after
\* starting a thread for every registered handler, and from every position
\* between lock_read and unlock_read it can take its next step toward
\* unlock_read.
C25_HandlerFailureIsolated ==
    [][/\ failed' # failed =>
            /\ \E k \in 1..Len(units) :
                  /\ failed' = Append(failed, units[k])
                  /\ units' = SubSeq(units, 1, k - 1) \o SubSeq(units, k + 1, Len(units))
            /\ UNCHANGED <<handlers, mutex, readers, pc, call, disp>>
       /\ (pc["d1"] = "launch" /\ pc'["d1"] # "launch") =>
            /\ pc'["d1"] = "unlock_read"
            /\ Targets(disp["d1"].launched) = handlers
       /\ InRead("d1") => ENABLED DispatcherStep("d1")]_vars

\* The thread of h1 for message 1 has raised; h1 is still registered, and
\* the callback for message 2 has started threads for h1 and for h2 and is
\* about to release read access.
C25_Witness ==
    /\ Len(failed) > 0
    /\ failed[1] = [msg |-> 1, h |-> "h1"]
    /\ handlers = <<"h1", "h2">>
    /\ disp["d1"].id = 2
    /\ pc["d1"] = "unlock_read"
    /\ Targets(disp["d1"].launched) = <<"h1", "h2">>

-----------------------------------------------------------------------------
(* Paths of Event against paths of Command.                                *)

\* C26: after any sequence of path-targeting calls and no action call, an
\* Event has the path a Command has after the same calls, which is the path
\* the last of them sets on a Command.
C26_EventPathsAsCommand ==
    (the_event.action_call = NoSignalCall /\ the_event.path_call # NoSignalCall) =>
        the_event.self.path =
            Command_path(NoCommand.self, the_event.path_call).self.path

-----------------------------------------------------------------------------
(* The lock over every path of a call and of a callback.                   *)

ReadersInside == {d \in Dispatchers : InRead(d)}

\* C27: the reader count is the number of callbacks between lock_read and
\* unlock_read and is never negative, the lock is held exactly while a
\* subscribe or unsubscribe call is between lock_write and unlock_write,
\* whether the callback finds no handler, fails to decode or starts the
\* handlers and whether the call fails or not; and the lock is free with no
\* reader counted again and again.
C27_LockReleasedOnEveryPath ==
    /\ [](/\ readers = Cardinality(ReadersInside)
          /\ readers >= 0
          /\ mutex \in {Free} \cup Writers
          /\ \A w \in Writers : (mutex = w) <=> InWrite(w))
    /\ []<>(readers = 0 /\ mutex = Free)

\* One callback found a payload that does not decode and the other has
\* started a handler; both hold read access.
C27_Witness ==
    /\ readers = 2
    /\ disp["d1"].err
    /\ pc["d1"] = "unlock_read"
    /\ pc["d2"] = "launch"
    /\ Len(disp["d2"].launched) = 1

\* C28: the handlers started for one message are the handler list of one
\* instant. While a callback is between lock_read and unlock_read no call is
\* between lock_write and unlock_write and no step changes the handler
\* list; the handlers started so far are the first entries of the list, and
\* the loop is left with a thread started for each entry of the list.
C28_FanOutSeesOneList ==
    [][\A d \in Dispatchers :
          InRead(d) =>
            /\ \A w \in Writers : ~InWrite(w)
            /\ handlers' = handlers
            /\ Targets(disp[d].launched) = SubSeq(handlers, 1, Len(disp[d].launched))
            /\ (pc[d] = "launch" /\ pc'[d] # "launch") =>
                  Targets(disp[d].launched) = handlers]_vars

\* subscribe(h1, h2) has added h1 and not yet h2 while a message waits at
\* lock_read.
C28_Witness ==
    /\ pc["w1"] = "body"
    /\ call["w1"].op = "subscribe"
    /\ call["w1"].args = <<"h1", "h2">>
    /\ call["w1"].i = 1
    /\ handlers = <<"h1">>
    /\ pc["d1"] = "lock_read"

-----------------------------------------------------------------------------
(* The handler list as an ordered list with repetition.                    *)

Occurrences(list, h) == Len(SelectSeq(list, LAMBDA x : x = h))

(* The list without its entry at position k.                               *)
Without(list, k) == SubSeq(list, 1, k - 1) \o SubSeq(list, k + 1, Len(list))

(* The position of the earliest occurrence of h in the list.               *)
Earliest(list, h) ==
    CHOOSE k \in 1..Len(list) :
        list[k] = h /\ \A j \in 1..(k - 1) : list[j] # h

\* C29: the handler list is an ordered list with repetition. A step of
\* subscribe for h puts h at the end of the list, registered or not, and
\* raises the count of h by one; a step of unsubscribe for a registered h
\* takes out the earliest occurrence of h alone, lowers the count of h by
\* one and keeps the other entries in their order; a step of unsubscribe
\* for an unregistered h and every other step leave the list as it is; and
\* the callback leaves its loop with as many threads started for each
\* handler as the list has occurrences of it.
C29_RegistryIsListWithRepetition ==
    [][LET c == call["w1"]
           h == c.args[c.i + 1]
       IN  /\ IF pc["w1"] = "body" /\ call'["w1"] # c
              THEN IF c.op = "subscribe"
                   THEN /\ handlers' = Append(handlers, h)
                        /\ Occurrences(handlers', h) = Occurrences(handlers, h) + 1
                   ELSE IF Occurrences(handlers, h) > 0
                   THEN /\ handlers' = Without(handlers, Earliest(handlers, h))
                        /\ Occurrences(handlers', h) = Occurrences(handlers, h) - 1
                        /\ \A g \in Handlers \ {h} :
                              SelectSeq(handlers', LAMBDA x : x = g)
                                  = SelectSeq(handlers, LAMBDA x : x = g)
                        /\ ~call'["w1"].err
                   ELSE handlers' = handlers /\ call'["w1"].err
              ELSE handlers' = handlers
           /\ (pc["d1"] = "launch" /\ pc'["d1"] # "launch") =>
                  \A g \in Handlers :
                      Occurrences(Targets(disp["d1"].launched), g) = Occurrences(handlers, g)]_vars

\* With h1, h2, h1 registered a message started two threads for h1 and one
\* for h2; unsubscribe(h1) has then left h2, h1.
C29_Witness ==
    /\ units = <<[msg |-> 1, h |-> "h1"], [msg |-> 1, h |-> "h2"], [msg |-> 1, h |-> "h1"]>>
    /\ pc["w1"] = "unlock"
    /\ call["w1"].op = "unsubscribe"
    /\ call["w1"].args = <<"h1">>
    /\ call["w1"].before = <<"h1", "h2", "h1">>
    /\ handlers = <<"h2", "h1">>

-----------------------------------------------------------------------------
(* The envelope of a payload with nested objects.                          *)

(* What the top-level object alone gives: from_ditto_dict of a new         *)
(* Envelope on it, its values as decoded.                                  *)
TopLevelAlone(ditto_dictionary) ==
    Envelope_from_ditto_dict(NewEnvelope, ditto_dictionary)

\* C30: the envelope _get_envelope returns is the one the top-level object
\* alone gives: topic, headers, path, status, fields, extra, revision and
\* timestamp are those of the top-level object, absent where it has no such
\* key, and the value is the decoded value, whatever object is nested under
\* value.
C30_EnvelopeFromTopLevelAlone ==
    (the_envelope.loaded.called /\ ~the_envelope.loaded.raised) =>
        the_envelope.loaded.self = TopLevelAlone(the_envelope.payload).self


=============================================================================
